---- MODULE Spec2Model ----
(***************************************************************************)
(* Entity resolution and review queue of the elyris backend:               *)
(*   backend/app/services/smart_query.py   SmartQueryService               *)
(*   backend/app/routers/review_queue.py   resolve / delete endpoints      *)
(*   backend/app/models.py                 Person, Location,               *)
(*                                          ReviewQueueItem                *)
(* The persisted tables are the state; every committed write of a handler  *)
(* is one step.  Strings are atoms, except date-of-birth strings, which    *)
(* are sequences of characters so that _parse_date really parses them.     *)
(***************************************************************************)
EXTENDS Integers, Sequences, FiniteSets, TLC

VARIABLES
    persons,      \* table person: sequence of rows, row i has id PersonId(i)
    locations,    \* table location: sequence of rows, row i has id LocationId(i)
    reviews,      \* table reviewqueueitem: review id -> row
    next_review,  \* number of review ids handed out so far (ids are fresh uuids)
    documents,    \* table document: sequence of rows [person_id, location_id]
    now,          \* the clock read by datetime.now(timezone.utc)
    semantic_available, \* _SENTENCE_TRANSFORMER_AVAILABLE and _NUMPY_AVAILABLE
    session,      \* a resolve_review request between its two commits, or Idle
    created,      \* number of rows inserted since the start
    feed,         \* the mappings and parse ids the uploads of this run send
    parser,       \* the DocumentParser at work: its text, its assist, its
                  \* stage and what it has produced
    calls,        \* the match_person calls in flight, by caller
    created_for,  \* history: the entities resolve_review created, each with
                  \* the review row it was created for
    last          \* the last call: operation, arguments, outcome

vars == <<persons, locations, reviews, next_review, documents, now,
          semantic_available, session, created, created_for, feed, parser,
          calls, last>>

----------------------------------------------------------------------------
(* Bounds of the model *)

MaxCreated == 2     \* rows inserted in a run
MaxClock == 2       \* review rows updated in a run
MaxUploads == 2     \* documents uploaded in a run

----------------------------------------------------------------------------
(* Identifiers.  Every id is a pair <<table, n>>; NoId is Python's None. *)

NoId == <<"none", 0>>
PersonId(i) == <<"person", i>>
LocationId(i) == <<"location", i>>
GhostId == <<"ghost", 0>>

----------------------------------------------------------------------------
(* Dates: datetime.date as [y, m, d]; NoDate is a NULL dob. *)

NoDate == [y |-> 0, m |-> 0, d |-> 0]

Digits == <<"0", "1", "2", "3", "4", "5", "6", "7", "8", "9">>

IsDigit(c) == \E i \in 1..10 : Digits[i] = c

DigitVal(c) == (CHOOSE i \in 1..10 : Digits[i] = c) - 1

RECURSIVE ToNat(_)
ToNat(s) == IF s = <<>> THEN 0
            ELSE 10 * ToNat(SubSeq(s, 1, Len(s) - 1)) + DigitVal(s[Len(s)])

AllDigits(s) == \A i \in 1..Len(s) : IsDigit(s[i])

\* the text before / after the first occurrence of sep (the whole text and
\* the empty text when sep does not occur)
FirstSep(s, sep) == IF \E i \in 1..Len(s) : s[i] = sep
                    THEN CHOOSE i \in 1..Len(s) :
                           s[i] = sep /\ \A j \in 1..(i - 1) : s[j] # sep
                    ELSE Len(s) + 1

Before(s, sep) == SubSeq(s, 1, FirstSep(s, sep) - 1)

After(s, sep) == SubSeq(s, FirstSep(s, sep) + 1, Len(s))

\* the three fields of a text that holds exactly two separators, else <<>>
Fields(s, sep) ==
    LET a == Before(s, sep)
        r == After(s, sep)
        b == Before(r, sep)
        c == After(r, sep)
    IN  IF /\ FirstSep(s, sep) <= Len(s)
           /\ FirstSep(r, sep) <= Len(r)
           /\ FirstSep(c, sep) > Len(c)
        THEN <<a, b, c>> ELSE <<>>

IsLeap(y) == (y % 4 = 0 /\ y % 100 # 0) \/ y % 400 = 0

DaysInMonth(y, m) == IF m = 2 THEN (IF IsLeap(y) THEN 29 ELSE 28)
                     ELSE IF m \in {4, 6, 9, 11} THEN 30 ELSE 31

\* strptime's %Y is four digits, %m and %d one or two; date() rejects a day
\* the month does not have
MakeDate(ys, ms, ds) ==
    IF /\ Len(ys) = 4 /\ AllDigits(ys)
       /\ Len(ms) \in {1, 2} /\ AllDigits(ms)
       /\ Len(ds) \in {1, 2} /\ AllDigits(ds)
       /\ ToNat(ys) >= 1
       /\ ToNat(ms) \in 1..12
       /\ ToNat(ds) >= 1 /\ ToNat(ds) <= DaysInMonth(ToNat(ys), ToNat(ms))
    THEN [y |-> ToNat(ys), m |-> ToNat(ms), d |-> ToNat(ds)]
    ELSE NoDate

\* _parse_date on a string: '%Y-%m-%d', then '%m/%d/%Y', then None
parse_date(s) ==
    LET iso == Fields(s, "-")
        us  == Fields(s, "/")
        d1  == IF iso = <<>> THEN NoDate ELSE MakeDate(iso[1], iso[2], iso[3])
        d2  == IF us = <<>> THEN NoDate ELSE MakeDate(us[3], us[1], us[2])
    IN  IF d1 # NoDate THEN d1 ELSE d2

Pad(n, width) ==
    LET ds == [i \in 1..width |->
                 Digits[((n \div (10 ^ (width - i))) % 10) + 1]]
    IN  ds

\* the text a Date column holds and compares: YYYY-MM-DD
DateColumnText(d) == Pad(d.y, 4) \o <<"-">> \o Pad(d.m, 2) \o <<"-">> \o Pad(d.d, 2)

----------------------------------------------------------------------------
(* Strings and field mappings *)

NoStr == "None"          \* a NULL text column / an absent value

\* date-of-birth strings are given as their characters
IsoDob == <<"2", "0", "2", "0", "-", "0", "3", "-", "0", "4">>
UsDob == <<"0", "3", "/", "0", "4", "/", "2", "0", "2", "0">>
BadDob == <<"n", "/", "a">>

LowerTable == [John |-> "john", Smith |-> "smith", Jon |-> "jon",
               Ann |-> "ann", Bob |-> "bob", Cid |-> "cid", Dan |-> "dan",
               Eve |-> "eve", Fay |-> "fay",
               Acme |-> "acme", Edina |-> "edina", MN |-> "mn",
               Zenith |-> "zenith", Duluth |-> "duluth",
               Birch |-> "birch", Hopkins |-> "hopkins"]

\* str.lower() / SQL lower()
Lower(s) == IF s \in DOMAIN LowerTable THEN LowerTable[s] ELSE s

EmptyDict == [x \in {} |-> NoStr]

Put(d, k, v) == [x \in (DOMAIN d) \cup {k} |-> IF x = k THEN v ELSE d[x]]

\* data.get(k) / data[k] is truthy: the key is there and its string is not empty
Truthy(d, k) == k \in DOMAIN d /\ (IF k = "dob" THEN d[k] # <<>> ELSE d[k] # "")

\* a raw mapping is a sequence of entries [k, t, v] in insertion order:
\* t = "str" (v a string), "dict" (v a sequence of entries), "other"
Str(k, v) == [k |-> k, t |-> "str", v |-> v]
Dict(k, v) == [k |-> k, t |-> "dict", v |-> v]
Other(k) == [k |-> k, t |-> "other", v |-> NoStr]

RECURSIVE FlattenNested(_, _)
FlattenNested(normalized, nested) ==
    IF nested = <<>> THEN normalized
    ELSE LET e == Head(nested)
             n == IF e.t = "str"
                  THEN Put(normalized,
                           IF e.k = "street_address" THEN "address" ELSE e.k,
                           e.v)
                  ELSE normalized
         IN  FlattenNested(n, Tail(nested))

RECURSIVE NormalizeInto(_, _)
NormalizeInto(normalized, data) ==
    IF data = <<>> THEN normalized
    ELSE LET e == Head(data)
             n == IF e.t = "dict" THEN FlattenNested(normalized, e.v)
                  ELSE IF e.t = "str"
                  THEN Put(normalized,
                           IF e.k = "street_address" THEN "address"
                           ELSE IF e.k = "organization_name" THEN "name"
                           ELSE e.k,
                           e.v)
                  ELSE normalized
         IN  NormalizeInto(n, Tail(data))

normalize_data(data) == NormalizeInto(EmptyDict, data)

----------------------------------------------------------------------------
(* The embedding backend.  The sentence-transformer model is not part of   *)
(* the repository: its cosine similarities, in hundredths, are tabulated   *)
(* for the texts of the model.  A text is the sequence of the parts that   *)
(* ' '.join puts together.                                                 *)

similarity_threshold == 75

top_candidates == 5

\* a strict comparison with the threshold, for contrast
AboveThresholdStrict(similarity) == similarity > similarity_threshold

\* similarity >= self.similarity_threshold
AboveThreshold(similarity) == similarity >= similarity_threshold

\* the text the encoder sees: case folded, the blanks that ' '.join puts
\* around an empty part gone
LowerText(t) ==
    LET parts == SelectSeq(t, LAMBDA w : w # "")
    IN  [i \in 1..Len(parts) |-> Lower(parts[i])]

CloseTexts ==
    { <<<<"jon", "smith">>, <<"john", "smith">>, 75>>,
      <<<<"smith">>, <<"ann", "smith">>, 77>>,
      <<<<"smith">>, <<"bob", "smith">>, 81>>,
      <<<<"smith">>, <<"cid", "smith">>, 77>>,
      <<<<"smith">>, <<"dan", "smith">>, 75>>,
      <<<<"smith">>, <<"fay", "smith">>, 74>>,
      <<<<"smith">>, <<"john", "smith">>, 81>>,
      <<<<"smith">>, <<"jon", "smith">>, 77>>,
      <<<<"edina", "mn">>, <<"acme", "1 Main St", "edina", "mn">>, 77>>,
      <<<<"edina", "mn">>, <<"acme", "9 Elm St", "edina", "mn">>, 81>>,
      <<<<"1 Main St", "edina", "mn">>, <<"acme", "1 Main St", "edina", "mn">>, 75>>,
      <<<<"duluth", "mn">>, <<"zenith", "duluth", "mn">>, 75>>,
      <<<<"hopkins", "mn">>, <<"birch", "5 Oak Ave", "hopkins", "mn">>, 80>> }

compute_similarity(text1, text2) ==
    LET a == LowerText(text1)
        b == LowerText(text2)
        hits == { e \in CloseTexts :
                    (e[1] = a /\ e[2] = b) \/ (e[1] = b /\ e[2] = a) }
    IN  IF a = b THEN 100
        ELSE IF hits # {} THEN (CHOOSE e \in hits : TRUE)[3]
        ELSE 60

\* the matches left in table order, for contrast
Unsorted(ms) == ms

\* list.sort(key=similarity, reverse=True): stable, equal scores keep their order
RECURSIVE SortDescending(_)
SortDescending(ms) ==
    IF ms = <<>> THEN <<>>
    ELSE LET best == CHOOSE i \in 1..Len(ms) :
                       /\ \A j \in 1..Len(ms) : ms[j].similarity <= ms[i].similarity
                       /\ \A j \in 1..(i - 1) : ms[j].similarity < ms[i].similarity
             rest == [k \in 1..(Len(ms) - 1) |->
                        IF k < best THEN ms[k] ELSE ms[k + 1]]
         IN  <<ms[best]>> \o SortDescending(rest)

\* a slice [:n]
Take(s, n) == SubSeq(s, 1, IF Len(s) < n THEN Len(s) ELSE n)

----------------------------------------------------------------------------
(* Rows *)

Person(first_name, last_name, dob) ==
    [first_name |-> first_name, last_name |-> last_name, dob |-> dob]

Location(name, address, city, state, zip) ==
    [name |-> name, address |-> address, city |-> city, state |-> state,
     zip |-> zip]

\* the database the service starts on
SeedPersons ==
    << Person("Ann", "Smith", [y |-> 2013, m |-> 6, d |-> 15]),
       Person("Bob", "Smith", NoDate),
       Person("Cid", "Smith", NoDate),
       Person("Dan", "Smith", NoDate),
       Person("Dan", "Smith", NoDate),
       Person("Fay", "Smith", NoDate) >>

SeedLocations ==
    << Location("Acme", "1 Main St", "Edina", "MN", "55401"),
       Location("Acme", "9 Elm St", "Edina", "MN", "55402"),
       Location("Birch", "5 Oak Ave", "Hopkins", "MN", "55343") >>

----------------------------------------------------------------------------
(* Person matching *)

\* a name comparison that respects case, for contrast
PersonQueryExactCase(ps, data) ==
    { i \in 1..Len(ps) :
        /\ ps[i].first_name = data["first_name"]
        /\ ps[i].last_name = data["last_name"]
        /\ Truthy(data, "dob") =>
             (ps[i].dob # NoDate /\ DateColumnText(ps[i].dob) = data["dob"]) }

\* the rows the deterministic query selects
PersonQuery(ps, data) ==
    { i \in 1..Len(ps) :
        /\ Lower(ps[i].first_name) = Lower(data["first_name"])
        /\ Lower(ps[i].last_name) = Lower(data["last_name"])
        /\ Truthy(data, "dob") =>
             (ps[i].dob # NoDate /\ DateColumnText(ps[i].dob) = data["dob"]) }

\* the row of the single exact match, 0 for None
match_person_deterministic(ps, data) ==
    IF "first_name" \in DOMAIN data /\ "last_name" \in DOMAIN data
    THEN LET results == PersonQuery(ps, data)
         IN  IF Cardinality(results) = 1 THEN CHOOSE i \in results : TRUE ELSE 0
    ELSE 0

PersonSearchParts(data) ==
    (IF "first_name" \in DOMAIN data THEN <<data["first_name"]>> ELSE <<>>)
    \o (IF "last_name" \in DOMAIN data THEN <<data["last_name"]>> ELSE <<>>)

PersonText(p) == <<p.first_name, p.last_name>>

\* a semantic tier that goes on as if the backend had answered, for contrast
match_person_semantic_unguarded(ps, data, available, backend) ==
    IF PersonSearchParts(data) = <<>> THEN <<>>
    ELSE SortDescending(
           SelectSeq([i \in 1..Len(ps) |->
                        [row |-> i,
                         similarity |->
                           compute_similarity(PersonSearchParts(data),
                                              PersonText(ps[i]))]],
                     LAMBDA m : AboveThreshold(m.similarity)))

\* the (row, similarity) pairs at or above the threshold, best first;
\* backend is "ok" or "raises" (compute_similarity throws)
match_person_semantic(ps, data, available, backend) ==
    IF ~available THEN <<>>
    ELSE IF PersonSearchParts(data) = <<>> THEN <<>>
    ELSE IF backend = "raises" /\ Len(ps) > 0 THEN <<>>
    ELSE LET scored == [i \in 1..Len(ps) |->
                          [row |-> i,
                           similarity |->
                             compute_similarity(PersonSearchParts(data),
                                                PersonText(ps[i]))]]
             matches == SelectSeq(scored,
                          LAMBDA m : AboveThreshold(m.similarity))
         IN  SortDescending(matches)

\* what became of the embedding backend in a call: "none" (not asked),
\* "missing" (dependency not installed), "raises", "ok"
BackendUse(rows, parts, available, backend) ==
    IF ~available THEN "missing"
    ELSE IF parts = <<>> THEN "none"
    ELSE IF backend = "raises" /\ rows > 0 THEN "raises"
    ELSE IF rows > 0 THEN "ok" ELSE "none"

PersonCandidate(ps, m) ==
    [id |-> PersonId(m.row), first_name |-> ps[m.row].first_name,
     last_name |-> ps[m.row].last_name, similarity |-> m.similarity]

\* a queue row that is born resolved, for contrast
ReviewItemResolved(document_parse_id, entity_type, query_type, raw_data, candidates) ==
    [document_parse_id |-> document_parse_id,
     entity_type |-> entity_type,
     query_type |-> query_type,
     raw_data |-> raw_data,
     candidate_matches |-> candidates,
     status |-> "resolved",
     resolved_entity_id |-> NoId,
     reviewed_by |-> NoStr,
     reviewed_at |-> 0]

\* _queue_for_review: the row it adds
ReviewItem(document_parse_id, entity_type, query_type, raw_data, candidates) ==
    [document_parse_id |-> document_parse_id,
     entity_type |-> entity_type,
     query_type |-> query_type,
     raw_data |-> raw_data,
     candidate_matches |-> candidates,
     status |-> "pending",
     resolved_entity_id |-> NoId,
     reviewed_by |-> NoStr,
     reviewed_at |-> 0]

Outcome(ret, ps, ls, queued, tiers, data, new_id, hits, backend) ==
    [ret |-> ret, persons |-> ps, locations |-> ls, queued |-> queued,
     tiers |-> tiers, data |-> data, new_id |-> new_id, hits |-> hits,
     backend |-> backend]

\* the new Person row of a mapping
NewPerson(data) ==
    Person(IF "first_name" \in DOMAIN data THEN data["first_name"] ELSE NoStr,
           IF "last_name" \in DOMAIN data THEN data["last_name"] ELSE NoStr,
           IF "dob" \in DOMAIN data THEN parse_date(data["dob"]) ELSE NoDate)

\* a resolver that stores a person under whatever name it was given, for
\* contrast
person_not_found_creating(ps, ls, data, document_parse_id, backend) ==
    Outcome(PersonId(Len(ps) + 1), Append(ps, NewPerson(data)), ls, <<>>,
            {"deterministic", "semantic"}, data, PersonId(Len(ps) + 1), 0,
            backend)

\* no match at all: a person with both names is created, any other mapping
\* is queued
person_not_found(ps, ls, data, document_parse_id, backend) ==
    IF Truthy(data, "first_name") /\ Truthy(data, "last_name")
    THEN Outcome(PersonId(Len(ps) + 1), Append(ps, NewPerson(data)), ls, <<>>,
                 {"deterministic", "semantic"}, data, PersonId(Len(ps) + 1), 0,
                 backend)
    ELSE Outcome(NoId, ps, ls,
                 <<ReviewItem(document_parse_id, "person", "no_results",
                              data, <<>>)>>,
                 {"deterministic", "semantic"}, data, NoId, 0, backend)

\* match_person after normalization and the two lookups
match_person_decide(ps, ls, data, document_parse_id, person, semantic_matches, backend) ==
    IF person # 0
    THEN Outcome(PersonId(person), ps, ls, <<>>, {"deterministic"}, data,
                 NoId, 0, "none")
    ELSE IF Len(semantic_matches) = 1
    THEN Outcome(PersonId(semantic_matches[1].row), ps, ls, <<>>,
                 {"deterministic", "semantic"}, data, NoId, 1, backend)
    ELSE IF Len(semantic_matches) = 0
    THEN person_not_found(ps, ls, data, document_parse_id, backend)
    ELSE Outcome(NoId, ps, ls,
                 <<ReviewItem(document_parse_id, "person", "multiple_results",
                      data,
                      [k \in 1..Len(Take(semantic_matches, top_candidates)) |->
                         PersonCandidate(ps, semantic_matches[k])])>>,
                 {"deterministic", "semantic"}, data, NoId,
                 Len(semantic_matches), backend)

match_person_normalized(ps, ls, data, document_parse_id, available, backend) ==
    match_person_decide(ps, ls, data, document_parse_id,
        match_person_deterministic(ps, data),
        match_person_semantic(ps, data, available, backend),
        BackendUse(Len(ps), PersonSearchParts(data), available, backend))

\* match_person: what it returns, the tables after it, the review rows it
\* queued, the tiers it ran
match_person(ps, ls, raw, document_parse_id, available, backend) ==
    match_person_normalized(ps, ls, normalize_data(raw), document_parse_id,
                            available, backend)

----------------------------------------------------------------------------
(* Location matching *)

AddressZipQuery(ls, data) ==
    { i \in 1..Len(ls) :
        ls[i].address = data["address"] /\ ls[i].zip = data["zip"] }

NameCityStateQuery(ls, data) ==
    { i \in 1..Len(ls) :
        /\ ls[i].name = data["organization_name"]
        /\ ls[i].city = data["city"]
        /\ ls[i].state = data["state"] }

\* the row of the single exact match, 0 for None
match_location_deterministic(ls, data) ==
    LET by_address == IF "address" \in DOMAIN data /\ "zip" \in DOMAIN data
                      THEN AddressZipQuery(ls, data) ELSE {}
        by_name == IF /\ "organization_name" \in DOMAIN data
                      /\ "city" \in DOMAIN data
                      /\ "state" \in DOMAIN data
                   THEN NameCityStateQuery(ls, data) ELSE {}
    IN  IF Cardinality(by_address) = 1 THEN CHOOSE i \in by_address : TRUE
        ELSE IF Cardinality(by_name) = 1 THEN CHOOSE i \in by_name : TRUE
        ELSE 0

Part(data, k) == IF k \in DOMAIN data THEN <<data[k]>> ELSE <<>>

LocationSearchParts(data) ==
    Part(data, "organization_name") \o Part(data, "address")
    \o Part(data, "city") \o Part(data, "state")

Column(v) == IF v # NoStr /\ v # "" THEN <<v>> ELSE <<>>

LocationText(l) ==
    <<l.name>> \o Column(l.address) \o Column(l.city) \o Column(l.state)

match_location_semantic(ls, data, available, backend) ==
    IF ~available THEN <<>>
    ELSE IF LocationSearchParts(data) = <<>> THEN <<>>
    ELSE IF backend = "raises" /\ Len(ls) > 0 THEN <<>>
    ELSE LET scored == [i \in 1..Len(ls) |->
                          [row |-> i,
                           similarity |->
                             compute_similarity(LocationSearchParts(data),
                                                LocationText(ls[i]))]]
             matches == SelectSeq(scored,
                          LAMBDA m : AboveThreshold(m.similarity))
         IN  SortDescending(matches)

LocationCandidate(ls, m) ==
    [id |-> LocationId(m.row), name |-> ls[m.row].name,
     address |-> ls[m.row].address, city |-> ls[m.row].city,
     state |-> ls[m.row].state, similarity |-> m.similarity]

\* a resolver that stores the unknown location as it does a person, for
\* contrast
location_not_found_creating(ps, ls, data, document_parse_id, backend) ==
    Outcome(LocationId(Len(ls) + 1), ps,
            Append(ls, Location(IF "name" \in DOMAIN data THEN data["name"] ELSE NoStr,
                                NoStr, NoStr, NoStr, NoStr)),
            <<>>, {"deterministic", "semantic"}, data,
            LocationId(Len(ls) + 1), 0, backend)

\* no match at all: locations are never created automatically, the mapping
\* is queued
location_not_found(ps, ls, data, document_parse_id, backend) ==
    Outcome(NoId, ps, ls,
            <<ReviewItem(document_parse_id, "location", "no_results",
                         data, <<>>)>>,
            {"deterministic", "semantic"}, data, NoId, 0, backend)

\* match_location after normalization and the two lookups
match_location_decide(ps, ls, data, document_parse_id, location, semantic_matches, backend) ==
    IF location # 0
    THEN Outcome(LocationId(location), ps, ls, <<>>, {"deterministic"}, data,
                 NoId, 0, "none")
    ELSE IF Len(semantic_matches) = 1
    THEN Outcome(LocationId(semantic_matches[1].row), ps, ls, <<>>,
                 {"deterministic", "semantic"}, data, NoId, 1, backend)
    ELSE IF Len(semantic_matches) = 0
    THEN location_not_found(ps, ls, data, document_parse_id, backend)
    ELSE Outcome(NoId, ps, ls,
                 <<ReviewItem(document_parse_id, "location", "multiple_results",
                      data,
                      [k \in 1..Len(Take(semantic_matches, top_candidates)) |->
                         LocationCandidate(ls, semantic_matches[k])])>>,
                 {"deterministic", "semantic"}, data, NoId,
                 Len(semantic_matches), backend)

match_location_normalized(ps, ls, data, document_parse_id, available, backend) ==
    match_location_decide(ps, ls, data, document_parse_id,
        match_location_deterministic(ls, data),
        match_location_semantic(ls, data, available, backend),
        BackendUse(Len(ls), LocationSearchParts(data), available, backend))

\* match_location: what it returns, the tables after it, the review rows it
\* queued, the tiers it ran
match_location(ps, ls, raw, document_parse_id, available, backend) ==
    match_location_normalized(ps, ls, normalize_data(raw), document_parse_id,
                              available, backend)

----------------------------------------------------------------------------
(* Inputs *)

JohnSmith == << Str("first_name", "John"), Str("last_name", "Smith") >>

JohnSmithLower ==
    << Str("first_name", "john"), Str("last_name", "smith"), Other("age") >>

JohnSmithIso ==
    << Str("first_name", "John"), Str("last_name", "Smith"), Str("dob", IsoDob) >>

JohnSmithUs ==
    << Str("first_name", "John"), Str("last_name", "Smith"), Str("dob", UsDob) >>

JohnSmithBad ==
    << Str("first_name", "John"), Str("last_name", "Smith"), Str("dob", BadDob) >>

JonSmithNested ==
    << Dict("name", << Str("first_name", "Jon"), Str("last_name", "Smith") >>) >>

SmithOnly == << Str("last_name", "Smith") >>

DanSmith == << Str("first_name", "Dan"), Str("last_name", "Smith") >>

BlankSmith == << Str("first_name", ""), Str("last_name", "Smith") >>

\* the name of a stored person, with another date of birth
AnnSmithIso ==
    << Str("first_name", "Ann"), Str("last_name", "Smith"), Str("dob", IsoDob) >>

PersonInputs ==
    { JohnSmith, JohnSmithLower, JohnSmithIso, JohnSmithUs, JohnSmithBad,
      JonSmithNested, SmithOnly, DanSmith, BlankSmith, AnnSmithIso }

AcmeEdina ==
    << Str("organization_name", "Acme"), Str("city", "Edina"), Str("state", "MN") >>

MainStNested ==
    << Dict("address", << Str("street_address", "1 Main St"), Str("zip", "55401") >>) >>

MainStEdina ==
    << Str("street_address", "1 Main St"), Str("city", "Edina"), Str("state", "MN") >>

ZenithDuluth ==
    << Str("organization_name", "Zenith"), Str("city", "Duluth"), Str("state", "MN") >>

BirchHopkins ==
    << Str("organization_name", "Birch"), Str("city", "Hopkins"), Str("state", "MN") >>

LocationInputs ==
    { AcmeEdina, MainStNested, MainStEdina, ZenithDuluth, BirchHopkins }

ParseIds == {1, 2}

Backends == {"ok", "raises"}

\* what the uploads of one run send to the resolver: recipient mappings,
\* sender mappings, parse ids
Feed(recipients, senders, parses) ==
    [persons |-> recipients, locations |-> senders, parses |-> parses]

Feeds ==
    { Feed({JohnSmith, JohnSmithLower, JonSmithNested, SmithOnly},
           {AcmeEdina, ZenithDuluth}, {1}),
      Feed({JohnSmithIso, JohnSmithUs, JohnSmithBad},
           {MainStNested, MainStEdina}, {1}),
      Feed({DanSmith, BlankSmith, SmithOnly},
           {BirchHopkins, ZenithDuluth}, {1, 2}),
      Feed({AnnSmithIso, JohnSmithIso}, {MainStEdina}, {1}) }

Reviewers == {"alice", "bob"}

\* new_entity_data a reviewer supplies, by the kind of the item
NewPersonData == Person("John", "Smith", NoDate)

NewLocationData == Location("Zenith", NoStr, "Duluth", "MN", NoStr)

\* a resolve request: pick an id, skip, or create
Request(resolved_entity_id, create_new, has_data) ==
    [resolved_entity_id |-> resolved_entity_id, create_new |-> create_new,
     new_entity_data |-> has_data]

Requests ==
    { Request(NoId, FALSE, FALSE),
      Request(PersonId(1), FALSE, FALSE),
      Request(GhostId, FALSE, FALSE),
      Request(NoId, TRUE, TRUE) }

\* the review ids a caller may name: those handed out so far, and 0, an id
\* no row ever has
ReviewIds == 0..next_review

----------------------------------------------------------------------------
(* Review queue *)

Idle == [rid |-> 0, entity_id |-> NoId, reviewed_by |-> NoStr]

EmptyReviews == [r \in {} |-> NoStr]

AddReviews(rs, n, queued) ==
    [r \in (DOMAIN rs) \cup ((n + 1)..(n + Len(queued))) |->
        IF r \in DOMAIN rs THEN rs[r] ELSE queued[r - n]]

RemoveReview(rs, rid) == [r \in (DOMAIN rs) \ {rid} |-> rs[r]]

Begun(raised, entity_id, ps, ls, committed) ==
    [raised |-> raised, entity_id |-> entity_id, persons |-> ps,
     locations |-> ls, committed |-> committed]

\* resolve_review on a row that exists, up to the commit of a created entity
resolve_review_found(rs, ps, ls, rid, req) ==
    IF req.create_new /\ req.new_entity_data
    THEN IF rs[rid].entity_type = "person"
         THEN Begun(FALSE, PersonId(Len(ps) + 1), Append(ps, NewPersonData),
                    ls, TRUE)
         ELSE IF rs[rid].entity_type = "location"
         THEN Begun(FALSE, LocationId(Len(ls) + 1), ps,
                    Append(ls, NewLocationData), TRUE)
         ELSE Begun(FALSE, req.resolved_entity_id, ps, ls, FALSE)
    ELSE Begun(FALSE, req.resolved_entity_id, ps, ls, FALSE)

\* resolve_review without the lookup's "not found" check, for contrast
resolve_review_begin_unchecked(rs, ps, ls, rid, req) ==
    IF rid \notin DOMAIN rs
    THEN Begun(FALSE, req.resolved_entity_id, ps, ls, FALSE)
    ELSE resolve_review_found(rs, ps, ls, rid, req)

\* resolve_review up to the commit of a created entity: whether it raised,
\* the entity id it goes on with, the tables after it, whether it committed
resolve_review_begin(rs, ps, ls, rid, req) ==
    IF rid \notin DOMAIN rs
    THEN Begun(TRUE, NoId, ps, ls, FALSE)
    ELSE resolve_review_found(rs, ps, ls, rid, req)

\* an update that leaves out who decided and when, for contrast
resolve_review_update_unsigned(rs, rid, entity_id, reviewed_by, time) ==
    IF rid \in DOMAIN rs
    THEN [rs EXCEPT ![rid].status = "resolved",
                    ![rid].resolved_entity_id = entity_id]
    ELSE rs

\* resolve_review's update of the review row
resolve_review_update(rs, rid, entity_id, reviewed_by, time) ==
    IF rid \in DOMAIN rs
    THEN [rs EXCEPT ![rid].status = "resolved",
                    ![rid].resolved_entity_id = entity_id,
                    ![rid].reviewed_by = reviewed_by,
                    ![rid].reviewed_at = time]
    ELSE rs

\* a call of the review queue, and a call of the resolver
Call(op, ok, ret, rid) ==
    [op |-> op, ok |-> ok, ret |-> ret, rid |-> rid, data |-> EmptyDict,
     tiers |-> {}, new_id |-> NoId, hits |-> 0, backend |-> "none",
     parse_id |-> 0]

Resolved(op, out, document_parse_id) ==
    [op |-> op, ok |-> TRUE, ret |-> out.ret, rid |-> 0, data |-> out.data,
     tiers |-> out.tiers, new_id |-> out.new_id, hits |-> out.hits,
     backend |-> out.backend, parse_id |-> document_parse_id]

----------------------------------------------------------------------------
(* Document text (backend/app/services/document_parser.py).  A text is the  *)
(* sequence of its characters, line feeds included, so that strip, lower,  *)
(* split, startswith, "in" and the regular expressions are computed on the *)
(* characters.  NoText is Python's None, which no text equals.             *)

NoText == <<"None">>

NoIndex == 0 - 1

Whitespace == {" ", "\n"}

UpperCase == <<"A", "B", "C", "D", "E", "F", "G", "H", "I", "J", "K", "L", "M", "N", "O", "P", "Q", "R", "S", "T", "U", "V", "W", "X", "Y", "Z">>

LowerCase == <<"a", "b", "c", "d", "e", "f", "g", "h", "i", "j", "k", "l", "m", "n", "o", "p", "q", "r", "s", "t", "u", "v", "w", "x", "y", "z">>

Min(a, b) == IF a < b THEN a ELSE b

Max(a, b) == IF a > b THEN a ELSE b

\* str.lower, one character
lower_char(c) ==
    IF \E k \in DOMAIN UpperCase : UpperCase[k] = c
    THEN LowerCase[CHOOSE k \in DOMAIN UpperCase : UpperCase[k] = c]
    ELSE c

\* str.lower
lower(s) == [i \in 1..Len(s) |-> lower_char(s[i])]

\* [a-z] under re.IGNORECASE
IsLetter(c) == \E k \in DOMAIN LowerCase : LowerCase[k] = lower_char(c)

RECURSIVE lstrip(_)
lstrip(s) ==
    IF s # <<>> /\ Head(s) \in Whitespace THEN lstrip(Tail(s)) ELSE s

RECURSIVE rstrip(_)
rstrip(s) ==
    IF s # <<>> /\ s[Len(s)] \in Whitespace
    THEN rstrip(SubSeq(s, 1, Len(s) - 1))
    ELSE s

\* str.strip
strip(s) == rstrip(lstrip(s))

\* str.startswith
startswith(s, prefix) ==
    Len(prefix) <= Len(s) /\ SubSeq(s, 1, Len(prefix)) = prefix

\* sub in s
contains(s, sub) ==
    \E i \in 0..(Len(s) - Len(sub)) : SubSeq(s, i + 1, i + Len(sub)) = sub

\* str.replace(c, '')
remove_char(s, c) == SelectSeq(s, LAMBDA x : x # c)

RECURSIVE first_word(_)
first_word(s) ==
    IF s = <<>> \/ Head(s) \in Whitespace
    THEN <<>>
    ELSE <<Head(s)>> \o first_word(Tail(s))

\* str.split()
RECURSIVE split(_)
split(s) ==
    IF lstrip(s) = <<>>
    THEN <<>>
    ELSE <<first_word(lstrip(s))>>
         \o split(SubSeq(lstrip(s), Len(first_word(lstrip(s))) + 1,
                         Len(lstrip(s))))

\* lines[i], Python's index from 0
line(lines, i) == lines[i + 1]

\* lines[a:], Python's slice
slice_from(lines, a) == SubSeq(lines, Min(a, Len(lines)) + 1, Len(lines))

\* lines[:n], Python's slice for n >= 0
slice_to(lines, n) == SubSeq(lines, 1, Min(Max(n, 0), Len(lines)))

\* the first i in lo..hi with P(i), or NoIndex
first_index(lo, hi, P(_)) ==
    IF \E i \in lo..hi : P(i)
    THEN CHOOSE i \in lo..hi : P(i) /\ \A j \in lo..(i - 1) : ~P(j)
    ELSE NoIndex

\* the last i in lo..hi with P(i), or NoIndex
last_index(lo, hi, P(_)) ==
    IF \E i \in lo..hi : P(i)
    THEN CHOOSE i \in lo..hi : P(i) /\ \A j \in (i + 1)..hi : ~P(j)
    ELSE NoIndex

RECURSIVE first_line(_)
first_line(text) ==
    IF text = <<>> \/ Head(text) = "\n"
    THEN <<>>
    ELSE <<Head(text)>> \o first_line(Tail(text))

\* text.split('\n')
RECURSIVE split_lines(_)
split_lines(text) ==
    IF Len(first_line(text)) = Len(text)
    THEN <<text>>
    ELSE <<first_line(text)>>
         \o split_lines(SubSeq(text, Len(first_line(text)) + 2, Len(text)))

\* '\n'.join(lines)
RECURSIVE join(_)
join(lines) ==
    IF lines = <<>> THEN <<>>
    ELSE IF Len(lines) = 1 THEN lines[1]
    ELSE lines[1] \o <<"\n">> \o join(Tail(lines))

\* "if text": neither None nor ''
TruthyText(t) == t # NoText /\ t # <<>>

\* '\n'.join(block) when the block is not empty, else the name stays None
block_text(block) == IF block = <<>> THEN NoText ELSE join(block)

\* line.strip() for every line
stripped(lines) == [i \in 1..Len(lines) |-> strip(lines[i])]

\* "line and not line.startswith('---')" of a stripped line
is_content(l) == l # <<>> /\ ~startswith(l, <<"-", "-", "-">>)

\* the stripped content lines among lines[:n]
content_lines(lines, n) == SelectSeq(stripped(slice_to(lines, n)), is_content)

(* Quote / e-mail format, parse_document_blocks lines 235-276 *)

Salutations == {<<"h", "i">>, <<"h", "e", "l", "l", "o">>, <<"h", "e", "y">>}

\* what follows "(hi|hello|hey)\s+" at the start of s, or <<>> when s does
\* not start so
after_salutation(s) ==
    IF \E p \in Salutations :
           /\ startswith(lower(s), p)
           /\ Len(s) > Len(p)
           /\ s[Len(p) + 1] \in Whitespace
    THEN LET p == CHOOSE p \in Salutations :
                      /\ startswith(lower(s), p)
                      /\ Len(s) > Len(p)
                      /\ s[Len(p) + 1] \in Whitespace
         IN  lstrip(SubSeq(s, Len(p) + 1, Len(s)))
    ELSE <<>>

\* the longest prefix matching [a-z\s]*
RECURSIVE name_run(_)
name_run(s) ==
    IF s # <<>> /\ (IsLetter(Head(s)) \/ Head(s) \in Whitespace)
    THEN <<Head(s)>> \o name_run(Tail(s))
    ELSE <<>>

\* group 2 of ^(hi|hello|hey)\s+([a-z\s]+)[,:] when the line also matches
\* ^(hi|hello|hey)\s+([a-z]+(\s+[a-z]+)?)[,:], else <<>>
salutation_name(s) ==
    LET rest == after_salutation(s)
        run == name_run(rest)
    IN  IF /\ run # <<>>
           /\ IsLetter(run[1])
           /\ IsLetter(run[Len(run)])
           /\ Len(split(run)) <= 2
           /\ Len(rest) > Len(run)
           /\ rest[Len(run) + 1] \in {",", ":"}
        THEN run
        ELSE <<>>

digits_at(s, i, n) ==
    i + n - 1 <= Len(s) /\ \A k \in i..(i + n - 1) : IsDigit(s[k])

\* re.search(r'\(\d{3}\)\s*\d{3}[-\s]*\d{4}', s)
has_phone(s) ==
    \E i \in 1..Len(s) :
        /\ s[i] = "("
        /\ digits_at(s, i + 1, 3)
        /\ i + 4 <= Len(s)
        /\ s[i + 4] = ")"
        /\ \E a \in (i + 5)..Len(s) :
              /\ \A k \in (i + 5)..(a - 1) : s[k] \in Whitespace
              /\ digits_at(s, a, 3)
              /\ \E b \in (a + 3)..Len(s) :
                    /\ \A k \in (a + 3)..(b - 1) :
                          s[k] \in Whitespace \cup {"-"}
                    /\ digits_at(s, b, 4)

signature_marker(s) == contains(s, <<"@">>) \/ has_phone(s)

ClosingPhrases == {<<"t", "h", "a", "n", "k", " ", "y", "o", "u">>, <<"t", "h", "a", "n", "k", "s">>, <<"s", "i", "n", "c", "e", "r", "e", "l", "y">>, <<"b", "e", "s", "t">>, <<"r", "e", "g", "a", "r", "d", "s">>}

closing_phrase(s) == \E phrase \in ClosingPhrases : contains(lower(s), phrase)

BodyIndicators == {<<"p", "r", "o", "p", "o", "s", "e", "d">>, <<"d", "e", "t", "a", "i", "l", "s">>, <<"r", "e", "p", "l", "y", " ", "t", "o", " ", "t", "h", "i", "s">>, <<"s", "e", "r", "v", "i", "c", "e", "s", " ", "b", "e", "l", "o", "w">>}

body_indicator(s) == \E word \in BodyIndicators : contains(lower(s), word)

\* the line of the salutation among lines[:20]
quote_salutation(lines) ==
    first_index(0, Min(20, Len(lines)) - 1,
                LAMBDA i : salutation_name(strip(line(lines, i))) # <<>>)

\* the first line with an e-mail address or a phone number in
\* range(i+1, min(i+50, len(lines)))
quote_signature(lines, i) ==
    first_index(i + 1, Min(i + 50, Len(lines)) - 1,
                LAMBDA j : signature_marker(strip(line(lines, j))))

\* sig_start: the nearest closing phrase in range(j-1, max(j-10, i), -1),
\* by default three lines back
quote_sig_start(lines, i, j) ==
    LET k == last_index(Max(j - 10, i) + 1, j - 1,
                        LAMBDA k : closing_phrase(strip(line(lines, k))))
    IN  IF k = NoIndex THEN j - 3 ELSE k

\* the signature lines kept from range(max(sig_start, i), j+2)
quote_sender_lines(lines, i, j) ==
    SelectSeq([k \in 1..(j + 2 - Max(quote_sig_start(lines, i, j), i)) |->
                  strip(line(lines, Max(quote_sig_start(lines, i, j), i) + k - 1))],
              LAMBDA l : is_content(l) /\ ~body_indicator(l))

\* the state of the heuristic after the pre-check
Heuristic(is_quote_format, raised, sender_text, recipient_text, body_start) ==
    [is_quote_format |-> is_quote_format, raised |-> raised,
     sender_text |-> sender_text, recipient_text |-> recipient_text,
     recipient_start_idx |-> NoIndex, body_start |-> body_start]

quote_format(lines) ==
    LET i == quote_salutation(lines)
        j == quote_signature(lines, i)
    IN  IF i = NoIndex
        THEN Heuristic(FALSE, "", NoText, NoText, 0)
        ELSE IF j = NoIndex
        THEN Heuristic(TRUE, "", NoText,
                       salutation_name(strip(line(lines, i))), i + 1)
        ELSE IF j + 1 >= Len(lines)
        THEN \* lines[j+1] does not exist
             Heuristic(TRUE, "IndexError", NoText,
                       salutation_name(strip(line(lines, i))), i + 1)
        ELSE Heuristic(TRUE, "", block_text(quote_sender_lines(lines, i, j)),
                       salutation_name(strip(line(lines, i))), i + 1)

(* Letterhead format, parse_document_blocks lines 279-332 *)

dear_line(l) == startswith(lower(strip(l)), <<"d", "e", "a", "r", " ">>)

\* the first line among lines[:50] that starts with "dear "
dear_line_idx(lines) ==
    first_index(0, Min(50, Len(lines)) - 1,
                LAMBDA i : dear_line(line(lines, i)))

\* walking back from lines[j]: the lines collected until an empty line (or,
\* with markers, a '---' line) follows at least one collected line
RECURSIVE preceding_block(_, _, _, _)
preceding_block(lines, j, collected, markers) ==
    IF j < 0
    THEN collected
    ELSE IF /\ strip(line(lines, j)) # <<>>
            /\ ~(markers /\ startswith(strip(line(lines, j)), <<"-", "-", "-">>))
    THEN preceding_block(lines, j - 1,
                         <<strip(line(lines, j))>> \o collected, markers)
    ELSE IF collected # <<>>
    THEN collected
    ELSE preceding_block(lines, j - 1, collected, markers)

\* Python's index of the n-th content line of lines
nth_content(lines, n) ==
    CHOOSE i \in 0..(Len(lines) - 1) :
        /\ is_content(strip(line(lines, i)))
        /\ Len(content_lines(lines, i + 1)) = n

letterhead_with_dear(lines, dear) ==
    LET recipient_lines == preceding_block(lines, dear - 1, <<>>, TRUE)
    IN  IF Len(recipient_lines) >= 2
        THEN Heuristic(FALSE, "",
                 block_text(content_lines(lines,
                                          dear - Len(recipient_lines) - 1)),
                 join(recipient_lines), dear)
        ELSE Heuristic(FALSE, "",
                 block_text(Take(content_lines(lines, dear), 5)),
                 NoText, dear)

letterhead_without_dear(lines) ==
    IF Len(content_lines(lines, 15)) >= 5
    THEN Heuristic(FALSE, "", join(Take(content_lines(lines, 15), 5)),
                   NoText,
                   nth_content(lines, 5) + 1)
    ELSE Heuristic(FALSE, "", NoText, NoText, 0)

letterhead_format(lines) ==
    \* "if dear_line_idx:" is false for None and for index 0
    IF dear_line_idx(lines) > 0
    THEN letterhead_with_dear(lines, dear_line_idx(lines))
    ELSE letterhead_without_dear(lines)

(* Recipient strategies, parse_document_blocks lines 335-396 *)

payer_header(l) ==
    \/ contains(lower(strip(l)), <<"p", "a", "y", "e", "r", " ", "i", "n", "f", "o", "r", "m", "a", "t", "i", "o", "n">>)
    \/ contains(lower(strip(l)), <<"r", "e", "c", "i", "p", "i", "e", "n", "t", " ", "i", "n", "f", "o", "r", "m", "a", "t", "i", "o", "n">>)

SectionKeywords == {<<"a", "c", "c", "o", "u", "n", "t", " ", "i", "n", "f", "o", "r", "m", "a", "t", "i", "o", "n">>, <<"t", "r", "a", "n", "s", "a", "c", "t", "i", "o", "n">>, <<"p", "a", "y", "m", "e", "n", "t">>, <<"s", "u", "m", "m", "a", "r", "y">>}

section_keyword(l) == \E keyword \in SectionKeywords : contains(lower(l), keyword)

to_indicator(l) ==
    \/ contains(lower(strip(l)), <<"t", "o", ":">>)
    \/ contains(lower(strip(l)), <<"r", "e", ":">>)

\* the non-empty stripped lines of remaining[j..hi], stopping at a section
\* keyword when keywords is set
RECURSIVE following_block(_, _, _, _)
following_block(remaining, j, hi, keywords) ==
    IF j > hi
    THEN <<>>
    ELSE IF strip(line(remaining, j)) = <<>>
    THEN following_block(remaining, j + 1, hi, keywords)
    ELSE IF keywords /\ section_keyword(strip(line(remaining, j)))
    THEN <<>>
    ELSE <<strip(line(remaining, j))>>
         \o following_block(remaining, j + 1, hi, keywords)

\* Strategy 0: "Payer Information" or "Recipient Information"
strategy_payer(h, remaining) ==
    LET i == first_index(0, Min(30, Len(remaining)) - 1,
                         LAMBDA i : payer_header(line(remaining, i)))
        recipient_block ==
            following_block(remaining, i + 1,
                            Min(i + 8, Len(remaining)) - 1, TRUE)
    IN  IF i # NoIndex /\ recipient_block # <<>>
        THEN [h EXCEPT !.recipient_text = join(recipient_block),
                       !.recipient_start_idx = i + Len(recipient_block) + 1,
                       !.sender_text = NoText]
        ELSE h

\* Strategy 1: "To:" or "Re:"
strategy_indicator(h, remaining) ==
    LET i == first_index(0, Min(20, Len(remaining)) - 1,
                         LAMBDA i : to_indicator(line(remaining, i)))
        recipient_block ==
            following_block(remaining, i + 1,
                            Min(i + 6, Len(remaining)) - 1, FALSE)
    IN  IF i # NoIndex /\ recipient_block # <<>>
        THEN [h EXCEPT !.recipient_text = join(recipient_block),
                       !.recipient_start_idx = i + Len(recipient_block) + 1]
        ELSE h

\* Strategy 2: the address block before "Dear"
strategy_dear(h, remaining) ==
    LET i == first_index(0, Min(30, Len(remaining)) - 1,
                         LAMBDA i : dear_line(line(remaining, i)))
        temp_block == preceding_block(remaining, i - 1, <<>>, FALSE)
    IN  IF i = NoIndex
        THEN h
        ELSE IF Len(temp_block) >= 2
        THEN [h EXCEPT !.recipient_text = join(temp_block),
                       !.recipient_start_idx = i + 1]
        ELSE [h EXCEPT !.recipient_start_idx = i]

find_recipient(h, lines) ==
    LET remaining == slice_from(lines, h.body_start)
        h0 == strategy_payer(h, remaining)
        h1 == IF TruthyText(h0.recipient_text)
              THEN h0
              ELSE strategy_indicator(h0, remaining)
    IN  IF TruthyText(h.recipient_text)
        THEN h
        ELSE IF TruthyText(h1.recipient_text)
        THEN h1
        ELSE strategy_dear(h1, remaining)

\* what parse_document_blocks gives back: the four outputs, or the exception
\* it raised
Blocks(raised, sender_text, recipient_text, body_text, doc_type) ==
    [raised |-> raised, sender_text |-> sender_text,
     recipient_text |-> recipient_text, body_text |-> body_text,
     doc_type |-> doc_type]

Raises(exception) == Blocks(exception, NoText, NoText, NoText, "")

heuristic_blocks(h, lines) ==
    IF h.raised # ""
    THEN Raises(h.raised)
    ELSE Blocks("", h.sender_text, h.recipient_text,
                strip(join(slice_from(lines,
                    IF h.recipient_start_idx # NoIndex
                    THEN h.body_start + h.recipient_start_idx
                    ELSE h.body_start))),
                "")

\* the heuristic path of parse_document_blocks, lines 227-410
parse_document_blocks_heuristic(text) ==
    LET lines == split_lines(strip(text))
        quote == quote_format(lines)
    IN  IF quote.raised # ""
        THEN Raises(quote.raised)
        ELSE IF quote.is_quote_format
        THEN heuristic_blocks(find_recipient(quote, lines), lines)
        ELSE heuristic_blocks(find_recipient(letterhead_format(lines), lines),
                              lines)

(* The language-model assist (backend/app/services/llm_parser.py).  A      *)
(* mapping is a function from field names to texts; JsonNull is a null of  *)
(* the reply.                                                              *)

JsonNull == NoText

\* "result.get(key)" as a condition: present, not None, not ''
dict_get(result, key) ==
    key \in DOMAIN result /\ result[key] # JsonNull /\ result[key] # <<>>

\* result[key] = value
dict_set(result, key, value) ==
    [k \in DOMAIN result \cup {key} |-> IF k = key THEN value ELSE result[k]]

IsUpper(c) == \E k \in DOMAIN UpperCase : UpperCase[k] = c

upper_char(c) ==
    IF \E k \in DOMAIN LowerCase : LowerCase[k] = c
    THEN UpperCase[CHOOSE k \in DOMAIN LowerCase : LowerCase[k] = c]
    ELSE c

\* str.upper
upper(s) == [i \in 1..Len(s) |-> upper_char(s[i])]

\* str.title
title(s) ==
    [i \in 1..Len(s) |->
        IF i = 1 \/ ~IsLetter(s[i - 1])
        THEN upper_char(s[i])
        ELSE lower_char(s[i])]

\* the first position from i on that holds no white space
skip_whitespace(s, i) ==
    IF \E k \in i..Len(s) : s[k] \notin Whitespace
    THEN CHOOSE k \in i..Len(s) :
             s[k] \notin Whitespace /\ \A j \in i..(k - 1) : s[j] \in Whitespace
    ELSE Len(s) + 1

\* [A-Za-z\s.]
city_char(c) == IsLetter(c) \/ c \in Whitespace \/ c = "."

\* the first position after p that holds no city character
city_end(s, p) ==
    IF \E k \in (p + 1)..Len(s) : ~city_char(s[k])
    THEN CHOOSE k \in (p + 1)..Len(s) :
             ~city_char(s[k]) /\ \A j \in (p + 1)..(k - 1) : city_char(s[j])
    ELSE Len(s) + 1

\* ,\s*([A-Z]{2})\s+\d{5} matches at position c
state_zip_at(s, c) ==
    LET a == skip_whitespace(s, c + 1)
    IN  /\ c <= Len(s)
        /\ s[c] = ","
        /\ a + 2 <= Len(s)
        /\ IsUpper(s[a])
        /\ IsUpper(s[a + 1])
        /\ s[a + 2] \in Whitespace
        /\ digits_at(s, skip_whitespace(s, a + 2), 5)

\* ([A-Za-z][A-Za-z\s.]+?),\s*([A-Z]{2})\s+\d{5} matches at position p;
\* with capital, the first character is [A-Z]
city_state_at(s, p, capital) ==
    /\ IF capital THEN IsUpper(s[p]) ELSE IsLetter(s[p])
    /\ city_end(s, p) >= p + 2
    /\ state_zip_at(s, city_end(s, p))

\* group 1 and group 2 of the match at p
city_of(s, p) == strip(SubSeq(s, p, city_end(s, p) - 1))

state_of(s, p) ==
    SubSeq(s, skip_whitespace(s, city_end(s, p) + 1),
           skip_whitespace(s, city_end(s, p) + 1) + 1)

\* re.search(r'([A-Za-z][A-Za-z\s.]+?),\s*([A-Z]{2})\s+\d{5}', text)
city_search(text) ==
    first_index(1, Len(text), LAMBDA p : city_state_at(text, p, FALSE))

\* _post_process_extraction, block_type "sender"
post_process_sender(result, text) ==
    LET lines == content_lines(split_lines(text), Len(text) + 1)
        r1 == IF ~dict_get(result, "organization_name") /\ lines # <<>>
              THEN dict_set(result, "organization_name", lines[1])
              ELSE result
        r2 == IF /\ ~dict_get(r1, "department")
                 /\ Len(lines) > 1
                 /\ ~contains(lines[2], <<"P", "O", " ", "B", "o", "x">>)
                 /\ ~\E i \in 1..Len(lines[2]) : digits_at(lines[2], i, 5)
              THEN dict_set(r1, "department", lines[2])
              ELSE r1
    IN  IF ~dict_get(r2, "city") /\ city_search(text) # NoIndex
        THEN dict_set(r2, "city", city_of(text, city_search(text)))
        ELSE r2

StreetSuffixes == {<<" ", "D", "R">>, <<" ", "S", "T">>, <<" ", "A", "V", "E">>, <<" ", "R", "D">>, <<" ", "L", "N">>, <<" ", "C", "T">>, <<"V", "I", "E", "W">>, <<"S", "T", "R", "E", "E", "T">>, <<"D", "R", "I", "V", "E">>}

StreetWords == {<<"V", "I", "E", "W">>, <<"D", "R", "I", "V", "E">>, <<"S", "T", "R", "E", "E", "T">>, <<"A", "V", "E", "N", "U", "E">>}

\* re.match(r'^\d+\s', l)
starts_with_number(l) ==
    /\ l # <<>>
    /\ IsDigit(l[1])
    /\ \E k \in 2..Len(l) :
          l[k] \in Whitespace /\ \A j \in 1..(k - 1) : IsDigit(l[j])

\* the line is skipped as a street address
street_line(l) ==
    \/ starts_with_number(l)
    \/ \E suffix \in StreetSuffixes : contains(upper(l), suffix)

\* the line gives the city and the state
city_line(l) ==
    /\ ~street_line(l)
    /\ l # <<>>
    /\ city_state_at(l, 1, TRUE)
    /\ ~\E word \in StreetWords : contains(upper(city_of(l, 1)), word)

\* ' '.join(words)
RECURSIVE join_words(_)
join_words(words) ==
    IF words = <<>> THEN <<>>
    ELSE IF Len(words) = 1 THEN words[1]
    ELSE words[1] \o <<" ">> \o join_words(Tail(words))

\* _post_process_extraction, block_type "recipient"
post_process_recipient(result, text) ==
    LET lines == content_lines(split_lines(text), Len(text) + 1)
        name_parts == IF lines = <<>> THEN <<>> ELSE split(lines[1])
        named == Len(name_parts) >= 2
        r1 == IF named /\ ~dict_get(result, "first_name")
              THEN dict_set(result, "first_name", title(name_parts[1]))
              ELSE result
        r2 == IF named /\ ~dict_get(result, "last_name")
              THEN dict_set(r1, "last_name",
                            title(join_words(Tail(name_parts))))
              ELSE r1
        found == first_index(1, Len(lines), LAMBDA i : city_line(lines[i]))
        r3 == IF found # NoIndex /\ ~dict_get(r2, "city")
              THEN dict_set(r2, "city", title(city_of(lines[found], 1)))
              ELSE r2
    IN  IF found # NoIndex /\ ~dict_get(r2, "state")
        THEN dict_set(r3, "state", state_of(lines[found], 1))
        ELSE r3

post_process_extraction(result, text, block_type) ==
    IF block_type = "sender" THEN post_process_sender(result, text)
    ELSE IF block_type = "recipient" THEN post_process_recipient(result, text)
    ELSE result

(* The hallucination guard, _validate_extraction lines 256-299 *)

VerbatimKeys == {"address", "zip", "phone", "email"}

LenientKeys == {"first_name", "last_name", "city", "state",
                "organization_name", "department", "name"}

\* zip: compared after removing spaces and hyphens
zip_in_source(value, source) ==
    contains(remove_char(remove_char(lower(source), " "), "-"),
             remove_char(remove_char(lower(value), " "), "-"))

\* verbatim, or verbatim once the spaces are removed
verbatim_in_source(value, source) ==
    \/ contains(lower(source), lower(value))
    \/ contains(remove_char(lower(source), " "), remove_char(lower(value), " "))

\* a part of more than two characters occurs in the source
part_in_source(value, source) ==
    \E i \in 1..Len(split(lower(value))) :
        /\ Len(split(lower(value))[i]) > 2
        /\ contains(lower(source), split(lower(value))[i])

\* the guard keeps result[key]
validated(key, value, source) ==
    /\ value # JsonNull
    /\ IF key \in VerbatimKeys
       THEN (key = "zip" /\ zip_in_source(value, source))
            \/ verbatim_in_source(value, source)
       ELSE IF key \in LenientKeys
       THEN part_in_source(value, source)
       ELSE TRUE

validate_extraction(result, source_text) ==
    [key \in {k \in DOMAIN result : validated(k, result[k], source_text)} |->
        result[key]]

\* {k: v for k, v in result.items() if v is not None}
without_none(result) ==
    [key \in {k \in DOMAIN result : result[k] # JsonNull} |-> result[key]]

\* one call of the assist: _call_llm raised ("error", "timeout"), its text
\* is not a JSON object ("unusable"), or json.loads gave fields ("json")
Reply(kind, fields) == [kind |-> kind, fields |-> fields]

\* DocumentParser.llm_parser (enabled: not None; available; the
\* VALIDATE_LLM_EXTRACTIONS flag) and what the assist answers in this run
Llm(enabled, available, validate, reply) ==
    [enabled |-> enabled, available |-> available, validate |-> validate,
     reply |-> reply]

\* LLMDocumentParser.extract_structured_with_llm
extract_structured_with_llm(text_block, block_type, llm) ==
    IF ~llm.available \/ text_block = <<>>
    THEN EmptyDict
    ELSE IF llm.reply.kind # "json"
    THEN EmptyDict      \* except Exception: return {}
    ELSE IF llm.validate
    THEN without_none(validate_extraction(
             post_process_extraction(llm.reply.fields, text_block, block_type),
             text_block))
    ELSE without_none(
             post_process_extraction(llm.reply.fields, text_block, block_type))

\* what extract_structured_data gives back: the fields and the layer they
\* come from
Extraction(layer, fields, text) ==
    [layer |-> layer, fields |-> fields, text |-> text]

NoExtraction == Extraction("none", EmptyDict, <<>>)

\* the regex layer, extract_structured_data lines 427-467: a function of the
\* text alone, kept as the application of that function to the text
regex_layer(text) == Extraction("regex", EmptyDict, text)

\* DocumentParser.extract_structured_data
extract_structured_data(text, block_type, llm) ==
    IF /\ llm.enabled
       /\ llm.available
       /\ text # <<>>
       /\ DOMAIN extract_structured_with_llm(text, block_type, llm) # {}
    THEN Extraction("llm", extract_structured_with_llm(text, block_type, llm),
                    text)
    ELSE regex_layer(text)

\* DocumentParser.parse_document_blocks.  Line 221 passes text and
\* filename_hints to parse_document_with_llm(self, text) (llm_parser.py
\* line 111): the call raises TypeError before the assist is asked.
parse_document_blocks(text, llm) ==
    IF llm.enabled /\ llm.available
    THEN Raises("TypeError")
    ELSE parse_document_blocks_heuristic(text)

(* Inputs of the parser *)

Letterhead == <<<<"A", "c", "m", "e", " ", "C", "o", "r", "p">>, <<"B", "i", "l", "l", "i", "n", "g", " ", "D", "e", "p", "t">>, <<"1", " ", "M", "a", "i", "n", " ", "S", "t">>, <<"E", "d", "i", "n", "a", ",", " ", "M", "N", " ", "5", "5", "4", "0", "1">>, <<"(", "7", "6", "3", ")", " ", "2", "0", "0", "-", "4", "6", "5", "3">>>>

ShortLetterhead == <<<<"A", "c", "m", "e", " ", "C", "o", "r", "p">>, <<"1", " ", "M", "a", "i", "n", " ", "S", "t">>, <<>>>>

PageLetterhead == <<<<"-", "-", "-", " ", "P", "a", "g", "e", " ", "1", " ", "-", "-", "-">>, <<"A", "c", "m", "e", " ", "C", "o", "r", "p">>>>

Heads == {<<>>, Letterhead, ShortLetterhead, PageLetterhead}

DearAddressBlock == <<<<"D", "e", "a", "r", " ", "J", "o", "h", "n", " ", "S", "m", "i", "t", "h">>, <<"1", "2", "3", " ", "O", "a", "k", " ", "S", "t">>, <<"C", "i", "t", "y", ",", " ", "S", "T", " ", "0", "0", "0", "0", "0">>, <<>>>>

AddressBlock == <<<<"J", "o", "h", "n", " ", "S", "m", "i", "t", "h">>, <<"1", "2", "3", " ", "O", "a", "k", " ", "S", "t">>, <<"H", "o", "p", "k", "i", "n", "s", ",", " ", "M", "N", " ", "5", "5", "3", "4", "3">>, <<>>>>

SalutationLines == <<<<"H", "i", " ", "H", "e", "a", "t", "h", "e", "r", ",">>, <<"P", "l", "e", "a", "s", "e", " ", "s", "e", "e", " ", "t", "h", "e", " ", "q", "u", "o", "t", "e">>>>

PayerLines == <<<<"P", "a", "y", "e", "r", " ", "I", "n", "f", "o", "r", "m", "a", "t", "i", "o", "n">>, <<"J", "a", "n", "e", " ", "R", "o", "e">>, <<"1", "2", " ", "E", "l", "m", " ", "A", "v", "e">>, <<"A", "c", "c", "o", "u", "n", "t", " ", "I", "n", "f", "o", "r", "m", "a", "t", "i", "o", "n">>>>

ToLines == <<<<"T", "o", ":", " ", "C", "l", "a", "i", "m", "s">>, <<"J", "a", "n", "e", " ", "R", "o", "e">>>>

Middles == {<<>>, DearAddressBlock, AddressBlock, SalutationLines, PayerLines, ToLines}

DearTail == <<<<"D", "e", "a", "r", " ", "J", "o", "h", "n", ",">>, <<"Y", "o", "u", "r", " ", "c", "l", "a", "i", "m", " ", "i", "s", " ", "a", "p", "p", "r", "o", "v", "e", "d">>>>

SignatureTail == <<<<"T", "h", "a", "n", "k", " ", "y", "o", "u", ",">>, <<"J", "a", "m", "e", "s", " ", "O", "s", "t", "l", "i", "e">>, <<"(", "7", "6", "3", ")", " ", "2", "0", "0", "-", "4", "6", "5", "3">>, <<"J", "a", "m", "e", "s", ".", "O", "s", "t", "l", "i", "e", "@", "d", "a", "v", "e", "y", ".", "c", "o", "m">>>>

EmailLastTail == <<<<"R", "e", "g", "a", "r", "d", "s">>, <<"J", "a", "m", "e", "s", " ", "O", "s", "t", "l", "i", "e">>, <<"J", "a", "m", "e", "s", ".", "O", "s", "t", "l", "i", "e", "@", "d", "a", "v", "e", "y", ".", "c", "o", "m">>>>

PlainTail == <<<<"T", "o", "t", "a", "l", " ", "d", "u", "e", " ", "1", "0">>>>

Tails == {DearTail, SignatureTail, EmailLastTail, PlainTail}

Texts == {join(head \o middle \o tail) :
              head \in Heads, middle \in Middles, tail \in Tails}

SenderBlock == <<"A", "c", "m", "e", " ", "C", "o", "r", "p", "\n", "1", " ", "M", "a", "i", "n", " ", "S", "t", "\n", "E", "d", "i", "n", "a", ",", " ", "M", "N", " ", "5", "5", "4", "0", "1">>

RecipientBlock == <<"J", "o", "h", "n", " ", "S", "m", "i", "t", "h", "\n", "1", "2", "3", " ", "O", "a", "k", " ", "S", "t", "\n", "H", "o", "p", "k", "i", "n", "s", ",", " ", "M", "N", " ", "5", "5", "3", "4", "3">>

TextBlocks == {SenderBlock, RecipientBlock}

BlockTypes == {"sender", "recipient"}

\* the assist invents a zip
ZipReply == [first_name |-> <<"J", "o", "h", "n">>, last_name |-> <<"S", "m", "i", "t", "h">>, zip |-> <<"9", "9", "9", "9", "9">>]

\* the assist invents a date of birth
DobReply == [first_name |-> <<"J", "o", "h", "n">>, last_name |-> <<"S", "m", "i", "t", "h">>, dob |-> <<"1", "9", "9", "0", "-", "0", "1", "-", "0", "1">>]

\* the assist invents a country and reads the rest
CountryReply == [name |-> <<"A", "c", "m", "e", " ", "C", "o", "r", "p">>, state |-> <<"M", "N">>, zip |-> <<"5", "5", "4", "0", "1">>, country |-> <<"C", "a", "n", "a", "d", "a">>]

\* the assist invents names and an address
NamesReply == [first_name |-> <<"A", "l">>, last_name |-> <<"B", "o">>, address |-> <<"9", " ", "E", "l", "m", " ", "S", "t">>, city |-> JsonNull]

\* the assist reads the block
ReadReply == [first_name |-> <<"J", "o", "h", "n">>, last_name |-> <<"S", "m", "i", "t", "h">>, address |-> <<"1", "2", "3", " ", "O", "a", "k", " ", "S", "t">>, city |-> <<"H", "o", "p", "k", "i", "n", "s">>, zip |-> <<"5", "5", "3", "4", "3">>]

\* the assist finds nothing
NullReply == [first_name |-> JsonNull, last_name |-> JsonNull]

JsonReplies ==
    {Reply("json", fields) :
        fields \in {ZipReply, DobReply, CountryReply, NamesReply, ReadReply,
                    NullReply, EmptyDict}}

FailureKinds == {"error", "timeout", "unusable"}

FailedReplies == {Reply(kind, EmptyDict) : kind \in FailureKinds}

NoReply == Reply("none", EmptyDict)

\* the parser without the assist, with the assist out of reach, and with the
\* assist answering
Llms ==
    {Llm(FALSE, FALSE, TRUE, NoReply), Llm(TRUE, FALSE, TRUE, NoReply)}
    \cup {Llm(TRUE, TRUE, validate, reply) :
              validate \in BOOLEAN, reply \in JsonReplies \cup FailedReplies}

(* The parser at work: parse_document on a text, or extract_structured_data *)
(* called on a block                                                        *)

Job(stage, text, block_type, llm) ==
    [stage |-> stage, text |-> text, block_type |-> block_type, llm |-> llm,
     blocks |-> Raises(""), parsed_sender |-> NoExtraction,
     parsed_recipient |-> NoExtraction, parsed |-> NoExtraction]

NoJob == Job("idle", <<>>, "", Llm(FALSE, FALSE, TRUE, NoReply))

Jobs ==
    {Job("text", text, "", llm) :
        text \in Texts,
        llm \in {l \in Llms : l.reply.kind # "json" /\ l.validate}}
    \cup {Job("block", text, block_type, llm) :
             text \in TextBlocks, block_type \in BlockTypes, llm \in Llms}

(* match_person in steps.  Each upload has its own Session on the one      *)
(* database (db.py get_session); match_person reads the table twice and    *)
(* writes it once, in three statements with nothing held between them, so  *)
(* the statements of two calls can alternate.                              *)

Callers == {"upload_a", "upload_b"}

\* a call of match_person in flight: where it is and what it has read
InFlight(pc, data, parse_id, backend, semantic_matches, use) ==
    [pc |-> pc, data |-> data, parse_id |-> parse_id, backend |-> backend,
     semantic_matches |-> semantic_matches, use |-> use]

NoCall == InFlight("idle", EmptyDict, 0, "none", <<>>, "none")

NoCalls == [c \in Callers |-> NoCall]


----------------------------------------------------------------------------
(* The system *)

Init ==
    /\ persons = SeedPersons
    /\ locations = SeedLocations
    /\ reviews = EmptyReviews
    /\ next_review = 0
    /\ documents = <<>>
    /\ now = 0
    /\ semantic_available \in BOOLEAN
    /\ session = Idle
    /\ created = 0
    /\ created_for = {}
    /\ feed \in Feeds
    /\ parser = NoJob
    /\ calls = NoCalls
    /\ last = Call("init", TRUE, NoId, 0)

\* SmartQueryService.match_person
MatchPerson ==
    \E raw \in feed.persons, parse_id \in feed.parses, backend \in Backends :
        \E out \in {match_person(persons, locations, raw, parse_id, semantic_available, backend)} :
            /\ created' = created + (Len(out.persons) - Len(persons))
                                   + (Len(out.locations) - Len(locations))
                                   + Len(out.queued)
            /\ created' <= MaxCreated
            /\ persons' = out.persons
            /\ reviews' = AddReviews(reviews, next_review, out.queued)
            /\ next_review' = next_review + Len(out.queued)
            /\ locations' = out.locations
            /\ last' = Resolved("match_person", out, parse_id)
            /\ UNCHANGED <<documents, now, semantic_available, session, created_for, feed, parser, calls>>

\* SmartQueryService.match_location
MatchLocation ==
    \E raw \in feed.locations, parse_id \in feed.parses, backend \in Backends :
        \E out \in {match_location(persons, locations, raw, parse_id, semantic_available, backend)} :
            /\ created' = created + (Len(out.persons) - Len(persons))
                                   + (Len(out.locations) - Len(locations))
                                   + Len(out.queued)
            /\ created' <= MaxCreated
            /\ persons' = out.persons
            /\ locations' = out.locations
            /\ reviews' = AddReviews(reviews, next_review, out.queued)
            /\ next_review' = next_review + Len(out.queued)
            /\ last' = Resolved("match_location", out, parse_id)
            /\ UNCHANGED <<documents, now, semantic_available, session, created_for, feed, parser, calls>>

\* a Document with its DocumentParse: the uploads are numbered, and the
\* number of an upload is the id of its parse
Document(location_id, person_id, parsed_sender, parsed_recipient) ==
    [location_id |-> location_id, person_id |-> person_id,
     parsed_sender |-> parsed_sender, parsed_recipient |-> parsed_recipient]

\* a slot the upload does not send to the resolver
NotAsked(ps, ls) == Outcome(NoId, ps, ls, <<>>, {}, EmptyDict, NoId, 0, "none")

\* if parsed_data['parsed_sender']: match_location(...)
upload_match_location(ps, ls, parsed_sender, document_parse_id, available, backend) ==
    IF parsed_sender # <<>>
    THEN match_location(ps, ls, parsed_sender, document_parse_id, available,
                        backend)
    ELSE NotAsked(ps, ls)

\* if parsed_data['parsed_recipient']: match_person(...)
upload_match_person(ps, ls, parsed_recipient, document_parse_id, available, backend) ==
    IF parsed_recipient # <<>>
    THEN match_person(ps, ls, parsed_recipient, document_parse_id, available,
                      backend)
    ELSE NotAsked(ps, ls)

\* POST /upload, from the parsed mappings on: the Document and its parse
\* are stored, the sender is matched, then the recipient, and the ids found
\* are written to the Document
UploadDocument ==
    /\ Len(documents) < MaxUploads
    /\ \E parsed_sender \in feed.locations \cup {<<>>},
          parsed_recipient \in feed.persons \cup {<<>>},
          backend \in Backends :
          \E sender \in {upload_match_location(persons, locations, parsed_sender,
                              Len(documents) + 1, semantic_available, backend)} :
          \E recipient \in {upload_match_person(sender.persons, sender.locations,
                                 parsed_recipient, Len(documents) + 1,
                                 semantic_available, backend)} :
              /\ created' = created + (Len(recipient.persons) - Len(persons))
                                     + (Len(recipient.locations) - Len(locations))
                                     + Len(sender.queued) + Len(recipient.queued)
              /\ created' <= MaxCreated
              /\ persons' = recipient.persons
              /\ locations' = recipient.locations
              /\ reviews' = AddReviews(reviews, next_review,
                                       sender.queued \o recipient.queued)
              /\ next_review' = next_review + Len(sender.queued)
                                            + Len(recipient.queued)
              /\ documents' = Append(documents,
                                  Document(sender.ret, recipient.ret,
                                           parsed_sender, parsed_recipient))
              /\ last' = [Call("upload_document", TRUE, NoId, 0)
                             EXCEPT !.parse_id = Len(documents')]
              /\ UNCHANGED <<now, semantic_available, session, created_for, feed, parser, calls>>

\* POST /{review_id}/resolve when resolve_review raises: HTTP 500
ResolveReviewRejected ==
    \E rid \in ReviewIds, req \in Requests, by \in Reviewers :
        \E b \in {resolve_review_begin(reviews, persons, locations, rid, req)} :
            /\ b.raised
            /\ last' = Call("resolve_review", FALSE, NoId, rid)
            /\ UNCHANGED <<persons, locations, reviews, next_review, documents,
                           now, semantic_available, session, created, created_for, feed, parser, calls>>

\* the id a resolution decides on, written to the slot of the document the
\* item came from
WriteBack(docs, item, entity_id) ==
    IF item.document_parse_id \in DOMAIN docs
    THEN IF item.entity_type = "person"
         THEN [docs EXCEPT ![item.document_parse_id].person_id = entity_id]
         ELSE [docs EXCEPT ![item.document_parse_id].location_id = entity_id]
    ELSE docs

\* a pick that reconciles the document itself, for contrast
ResolveReviewWritingBack ==
    \E rid \in ReviewIds, req \in Requests, by \in Reviewers :
        \E b \in {resolve_review_begin(reviews, persons, locations, rid, req)} :
            /\ ~b.raised /\ ~b.committed
            /\ now < MaxClock
            /\ now' = now + 1
            /\ reviews' = resolve_review_update(reviews, rid, b.entity_id, by, now')
            /\ documents' = WriteBack(documents, reviews[rid], b.entity_id)
            /\ last' = Call("resolve_review", TRUE, b.entity_id, rid)
            /\ UNCHANGED <<persons, locations, next_review,
                           semantic_available, session, created, created_for, feed, parser, calls>>

\* POST /{review_id}/resolve, pick or skip: one commit
ResolveReview ==
    \E rid \in ReviewIds, req \in Requests, by \in Reviewers :
        \E b \in {resolve_review_begin(reviews, persons, locations, rid, req)} :
            /\ ~b.raised /\ ~b.committed
            /\ now < MaxClock
            /\ now' = now + 1
            /\ reviews' = resolve_review_update(reviews, rid, b.entity_id, by, now')
            /\ last' = Call("resolve_review", TRUE, b.entity_id, rid)
            /\ UNCHANGED <<persons, locations, next_review, documents,
                           semantic_available, session, created, created_for, feed, parser, calls>>

\* POST /{review_id}/resolve, create: the first commit stores the new entity
ResolveReviewCreateEntity ==
    \E rid \in ReviewIds, req \in Requests, by \in Reviewers :
        \E b \in {resolve_review_begin(reviews, persons, locations, rid, req)} :
            /\ ~b.raised /\ b.committed
            /\ session = Idle
            /\ created' = created + 1
            /\ created' <= MaxCreated
            /\ persons' = b.persons
            /\ locations' = b.locations
            /\ session' = [rid |-> rid, entity_id |-> b.entity_id, reviewed_by |-> by]
            /\ created_for' = created_for \cup {[entity_id |-> b.entity_id, rid |-> rid]}
            /\ last' = Call("resolve_review_create", TRUE, b.entity_id, rid)
            /\ UNCHANGED <<reviews, next_review, documents, now,
                           semantic_available, feed, parser, calls>>

\* ... and the second commit stores the review row (StaleDataError when the
\* row was deleted in between)
ResolveReviewFinish ==
    /\ session # Idle
    /\ now < MaxClock
    /\ session' = Idle
    /\ IF session.rid \in DOMAIN reviews
       THEN /\ now' = now + 1
            /\ reviews' = resolve_review_update(reviews, session.rid,
                              session.entity_id, session.reviewed_by, now')
            /\ last' = Call("resolve_review", TRUE, session.entity_id,
                            session.rid)
       ELSE /\ last' = Call("resolve_review", FALSE, NoId, session.rid)
            /\ UNCHANGED <<reviews, now>>
    /\ UNCHANGED <<persons, locations, next_review, documents,
                   semantic_available, created, created_for, feed, parser, calls>>

\* the request dies between its two commits (the process is killed, the
\* database refuses the second write)
ResolveReviewAbort ==
    /\ session # Idle
    /\ session' = Idle
    /\ last' = Call("resolve_review", FALSE, NoId, session.rid)
    /\ UNCHANGED <<persons, locations, reviews, next_review, documents, now,
                   semantic_available, created, created_for, feed, parser, calls>>

\* DELETE /{review_id}
DeleteReviewItem ==
    \E rid \in ReviewIds :
        /\ IF rid \in DOMAIN reviews
           THEN /\ reviews' = RemoveReview(reviews, rid)
                /\ last' = Call("delete_review_item", TRUE, NoId, rid)
           ELSE /\ UNCHANGED reviews
                /\ last' = Call("delete_review_item", FALSE, NoId, rid)
        /\ UNCHANGED <<persons, locations, next_review, documents, now,
                       semantic_available, session, created, created_for, feed, parser, calls>>

(* The parser at work *)

\* a DocumentParser is built and handed a text (documents.py lines 58-59),
\* or a block
StartParser ==
    /\ parser.stage = "idle"
    /\ parser' \in Jobs
    /\ last' = Call("DocumentParser", TRUE, NoId, 0)
    /\ UNCHANGED <<persons, locations, reviews, next_review, documents, now,
                   semantic_available, session, created, created_for, feed, calls>>

\* parse_document line 507: the text is cut into blocks
ParseDocumentBlocks ==
    /\ parser.stage = "text"
    /\ \E blocks \in {parse_document_blocks(parser.text, parser.llm)} :
          parser' = [parser EXCEPT
                        !.stage = IF blocks.raised # "" THEN "raised"
                                  ELSE "blocks",
                        !.blocks = blocks]
    /\ last' = Call("parse_document_blocks", parser'.stage = "blocks", NoId, 0)
    /\ UNCHANGED <<persons, locations, reviews, next_review, documents, now,
                   semantic_available, session, created, created_for, feed, calls>>

\* parse_document lines 514-515: each block that was found is read
ParseDocumentExtract ==
    /\ parser.stage = "blocks"
    /\ parser' = [parser EXCEPT
           !.stage = "parsed",
           !.parsed_sender =
               IF TruthyText(parser.blocks.sender_text)
               THEN extract_structured_data(parser.blocks.sender_text,
                                            "sender", parser.llm)
               ELSE NoExtraction,
           !.parsed_recipient =
               IF TruthyText(parser.blocks.recipient_text)
               THEN extract_structured_data(parser.blocks.recipient_text,
                                            "recipient", parser.llm)
               ELSE NoExtraction]
    /\ last' = Call("parse_document", TRUE, NoId, 0)
    /\ UNCHANGED <<persons, locations, reviews, next_review, documents, now,
                   semantic_available, session, created, created_for, feed, calls>>

\* DocumentParser.extract_structured_data called on a block
ExtractStructuredData ==
    /\ parser.stage = "block"
    /\ parser' = [parser EXCEPT
           !.stage = "extracted",
           !.parsed = extract_structured_data(parser.text, parser.block_type,
                                              parser.llm)]
    /\ last' = Call("extract_structured_data", TRUE, NoId, 0)
    /\ UNCHANGED <<persons, locations, reviews, next_review, documents, now,
                   semantic_available, session, created, created_for, feed, calls>>

InitParser ==
    /\ persons = SeedPersons
    /\ locations = SeedLocations
    /\ reviews = EmptyReviews
    /\ next_review = 0
    /\ documents = <<>>
    /\ now = 0
    /\ semantic_available = TRUE
    /\ session = Idle
    /\ created = 0
    /\ created_for = {}
    /\ feed = Feed({}, {}, {})
    /\ parser = NoJob
    /\ calls = NoCalls
    /\ last = Call("init", TRUE, NoId, 0)

NextParser ==
    \/ StartParser
    \/ ParseDocumentBlocks
    \/ ParseDocumentExtract
    \/ ExtractStructuredData

SpecParser == InitParser /\ [][NextParser]_vars

\* the entries of the raw mappings that normalization is tried on
MaxEntries == 2

Entries ==
    { Str("street_address", "1 Main St"),
      Str("organization_name", "Acme"),
      Str("name", "Birch"),
      Str("city", "Edina"),
      Other("age"),
      Dict("address", << Str("street_address", "1 Main St"),
                         Str("zip", "55401") >>),
      Dict("sender", << Str("organization_name", "Acme"),
                        Str("state", "MN") >>),
      Dict("meta", << Other("pages"), Str("city", "Duluth") >>) }

\* a dict has one entry for a key
RawMappings ==
    UNION { { data \in [1..n -> Entries] :
                \A i, j \in 1..n : i # j => data[i].k # data[j].k } :
            n \in 0..MaxEntries }

\* data.items() of a normalized mapping
RECURSIVE items(_)
items(d) ==
    IF DOMAIN d = {} THEN <<>>
    ELSE LET k == CHOOSE x \in DOMAIN d : TRUE
         IN  <<Str(k, d[k])>> \o items([x \in (DOMAIN d) \ {k} |-> d[x]])

Normalized(raw, data, again) ==
    [op |-> "_normalize_data", raw |-> raw, data |-> data, again |-> again]

\* SmartQueryService._normalize_data on a mapping, and on its own result
NormalizeData ==
    \E raw \in feed.locations :
        /\ last' = Normalized(raw, normalize_data(raw),
                              normalize_data(items(normalize_data(raw))))
        /\ UNCHANGED <<persons, locations, reviews, next_review, documents,
                       now, semantic_available, session, created,
                       created_for, feed, parser, calls>>

InitNormalize ==
    /\ persons = SeedPersons
    /\ locations = SeedLocations
    /\ reviews = EmptyReviews
    /\ next_review = 0
    /\ documents = <<>>
    /\ now = 0
    /\ semantic_available = TRUE
    /\ session = Idle
    /\ created = 0
    /\ created_for = {}
    /\ feed \in {Feed({}, {raw}, {1}) : raw \in RawMappings}
    /\ parser = NoJob
    /\ calls = NoCalls
    /\ last = Call("init", TRUE, NoId, 0)

NextNormalize == NormalizeData

SpecNormalize == InitNormalize /\ [][NextNormalize]_vars


\* match_person lines 243-248: the mapping is normalized and the
\* deterministic query is run; a single exact row ends the call
BeginMatchPerson ==
    \E c \in Callers, raw \in feed.persons, parse_id \in feed.parses,
       backend \in Backends :
        \E data \in {normalize_data(raw)} :
        \E person \in {match_person_deterministic(persons, data)} :
            /\ calls[c].pc = "idle"
            /\ IF person # 0
               THEN /\ last' = Resolved("match_person",
                                  match_person_decide(persons, locations, data,
                                      parse_id, person, <<>>, "none"),
                                  parse_id)
                    /\ UNCHANGED calls
               ELSE /\ calls' = [calls EXCEPT ![c] =
                                   InFlight("deterministic", data, parse_id,
                                            backend, <<>>, "none")]
                    /\ last' = Call("match_person_deterministic", TRUE, NoId, 0)
            /\ UNCHANGED <<persons, locations, reviews, next_review, documents,
                           now, semantic_available, session, created,
                           created_for, feed, parser>>

\* match_person line 251: the semantic query reads the table
SemanticMatchPerson ==
    \E c \in Callers :
        /\ calls[c].pc = "deterministic"
        /\ calls' = [calls EXCEPT ![c] =
               InFlight("semantic", calls[c].data, calls[c].parse_id,
                        calls[c].backend,
                        match_person_semantic(persons, calls[c].data,
                                              semantic_available,
                                              calls[c].backend),
                        BackendUse(Len(persons),
                                   PersonSearchParts(calls[c].data),
                                   semantic_available, calls[c].backend))]
        /\ last' = Call("match_person_semantic", TRUE, NoId, 0)
        /\ UNCHANGED <<persons, locations, reviews, next_review, documents,
                       now, semantic_available, session, created,
                       created_for, feed, parser>>

\* a call that looks the person up once more before it writes, as it
\* would under a lock held from the lookup to the commit, for contrast
FinishMatchPersonLocked ==
    \E c \in Callers :
        \E out \in {match_person_decide(persons, locations, calls[c].data,
                        calls[c].parse_id,
                        match_person_deterministic(persons, calls[c].data),
                        calls[c].semantic_matches, calls[c].use)} :
            /\ calls[c].pc = "semantic"
            /\ created' = created + (Len(out.persons) - Len(persons))
                                   + Len(out.queued)
            /\ created' <= MaxCreated
            /\ persons' = out.persons
            /\ reviews' = AddReviews(reviews, next_review, out.queued)
            /\ next_review' = next_review + Len(out.queued)
            /\ calls' = [calls EXCEPT ![c] = NoCall]
            /\ last' = Resolved("match_person", out, calls[c].parse_id)
            /\ UNCHANGED <<locations, documents, now, semantic_available,
                           session, created_for, feed, parser>>

\* match_person lines 253-279: one candidate is returned, none makes a new
\* Person (add, commit) or a review item, several make a review item
FinishMatchPerson ==
    \E c \in Callers :
        \E out \in {match_person_decide(persons, locations, calls[c].data,
                        calls[c].parse_id, 0, calls[c].semantic_matches,
                        calls[c].use)} :
            /\ calls[c].pc = "semantic"
            /\ created' = created + (Len(out.persons) - Len(persons))
                                   + Len(out.queued)
            /\ created' <= MaxCreated
            /\ persons' = out.persons
            /\ reviews' = AddReviews(reviews, next_review, out.queued)
            /\ next_review' = next_review + Len(out.queued)
            /\ calls' = [calls EXCEPT ![c] = NoCall]
            /\ last' = Resolved("match_person", out, calls[c].parse_id)
            /\ UNCHANGED <<locations, documents, now, semantic_available,
                           session, created_for, feed, parser>>

InitConcurrent ==
    /\ persons = SeedPersons
    /\ locations = SeedLocations
    /\ reviews = EmptyReviews
    /\ next_review = 0
    /\ documents = <<>>
    /\ now = 0
    /\ semantic_available \in BOOLEAN
    /\ session = Idle
    /\ created = 0
    /\ created_for = {}
    /\ feed = Feed({JohnSmith, JonSmithNested, SmithOnly}, {}, {1})
    /\ parser = NoJob
    /\ calls = NoCalls
    /\ last = Call("init", TRUE, NoId, 0)

NextConcurrent ==
    \/ BeginMatchPerson
    \/ SemanticMatchPerson
    \/ FinishMatchPerson

SpecConcurrent == InitConcurrent /\ [][NextConcurrent]_vars


----------------------------------------------------------------------------
Next ==
    \/ NormalizeData
    \/ StartParser
    \/ ParseDocumentBlocks
    \/ ParseDocumentExtract
    \/ ExtractStructuredData
    \/ UploadDocument
    \/ MatchPerson
    \/ MatchLocation
    \/ BeginMatchPerson
    \/ SemanticMatchPerson
    \/ FinishMatchPerson
    \/ ResolveReviewRejected
    \/ ResolveReview
    \/ ResolveReviewCreateEntity
    \/ ResolveReviewFinish
    \/ ResolveReviewAbort
    \/ DeleteReviewItem

Spec == Init /\ [][Next]_vars

\* the resolver alone: uploads resolving their slots
NextResolver == MatchPerson \/ MatchLocation

SpecResolver == Init /\ [][NextResolver]_vars

NextUpload == UploadDocument

SpecUpload == Init /\ [][NextUpload]_vars

\* the review queue at work: two uploads have left one person item and one
\* location item to adjudicate
QueueSeed ==
    AddReviews(EmptyReviews, 0,
        match_person(SeedPersons, SeedLocations, SmithOnly, 1, TRUE, "ok").queued
        \o match_location(SeedPersons, SeedLocations, ZenithDuluth, 1, TRUE,
                          "ok").queued)

InitQueue ==
    /\ persons = SeedPersons
    /\ locations = SeedLocations
    /\ reviews = QueueSeed
    /\ next_review = 2
    /\ documents = <<>>
    /\ now = 0
    /\ semantic_available = TRUE
    /\ session = Idle
    /\ created = 0
    /\ created_for = {}
    /\ feed = Feed({SmithOnly}, {ZenithDuluth}, {1})
    /\ parser = NoJob
    /\ calls = NoCalls
    /\ last = Call("init", TRUE, NoId, 0)

NextQueue ==
    \/ ResolveReviewRejected
    \/ ResolveReview
    \/ ResolveReviewCreateEntity
    \/ ResolveReviewFinish
    \/ ResolveReviewAbort
    \/ DeleteReviewItem

SpecQueue == InitQueue /\ [][NextQueue]_vars

\* uploads and the adjudication of what they queued
InitAdjudicate ==
    /\ persons = SeedPersons
    /\ locations = SeedLocations
    /\ reviews = EmptyReviews
    /\ next_review = 0
    /\ documents = <<>>
    /\ now = 0
    /\ semantic_available = TRUE
    /\ session = Idle
    /\ created = 0
    /\ created_for = {}
    /\ feed = Feed({SmithOnly, JohnSmith}, {ZenithDuluth}, {1})
    /\ parser = NoJob
    /\ calls = NoCalls
    /\ last = Call("init", TRUE, NoId, 0)

NextAdjudicate == UploadDocument \/ NextQueue

SpecAdjudicate == InitAdjudicate /\ [][NextAdjudicate]_vars

----------------------------------------------------------------------------
(* The review queue: resolve_review and delete *)

ResolveOps == {"resolve_review", "resolve_review_create"}

Decided(status) == status \in {"resolved", "skipped"}

\* C1: resolve_review on a review item that is not pending fails, leaves the
\* item's status, resolved id, reviewer and timestamp as the first resolution
\* set them, and creates no entity.
C1_ResolveOnlyPending ==
    [][\A rid \in DOMAIN reviews :
          (reviews[rid].status # "pending" /\ last'.op \in ResolveOps
             /\ last'.rid = rid)
          => /\ last'.ok = FALSE
             /\ rid \in DOMAIN reviews' /\ reviews'[rid] = reviews[rid]
             /\ persons' = persons /\ locations' = locations]_vars

\* C2: a review item's status changes only from pending to resolved or from
\* pending to skipped; once resolved or skipped, no operation changes its
\* status or its recorded decision again.
C2_DecisionIsFinal ==
    [][\A rid \in DOMAIN reviews \cap DOMAIN reviews' :
          /\ reviews'[rid].status # reviews[rid].status
               => (reviews[rid].status = "pending"
                     /\ Decided(reviews'[rid].status))
          /\ Decided(reviews[rid].status) => reviews'[rid] = reviews[rid]]_vars

\* C3: a resolution that neither picks an entity nor creates one moves the
\* item from pending to skipped, records no resolved entity id and returns
\* null.
C3_SkipIsRecordedAsSkipped ==
    [][\A rid \in DOMAIN reviews :
          (reviews[rid].status = "pending" /\ last'.op = "resolve_review"
             /\ last'.rid = rid /\ last'.ok /\ last'.ret = NoId)
          => /\ rid \in DOMAIN reviews'
             /\ reviews'[rid].status = "skipped"
             /\ reviews'[rid].resolved_entity_id = NoId]_vars

\* C4: with no resolution under way, an entity that resolve_review created
\* for a review item exists only together with that item's transition out of
\* pending: both have happened or neither.
C4_CreateIsAtomic ==
    session = Idle =>
        \A c \in created_for :
            c.rid \in DOMAIN reviews => reviews[c.rid].status # "pending"

\* C5: resolve_review on an id that names no review item fails, and changes
\* no review item, person, location or document.
C5_UnknownReviewFails ==
    [][(last'.op \in ResolveOps /\ last'.rid \notin DOMAIN reviews)
          => /\ last'.ok = FALSE
             /\ UNCHANGED <<reviews, persons, locations, documents>>]_vars

\* a resolution of review 0, which never existed, has just been refused,
\* with rows in every state in the queue
C5_Witness ==
    /\ last.op = "resolve_review" /\ ~last.ok /\ last.rid = 0
    /\ 0 \notin DOMAIN reviews
    /\ \E rid \in DOMAIN reviews : reviews[rid].status = "resolved"
    /\ \E rid \in DOMAIN reviews : reviews[rid].status = "pending"

----------------------------------------------------------------------------
(* The resolver: match_person and match_location *)

ResolverOps == {"match_person", "match_location"}

\* the rows whose names equal the mapping's, case aside, and whose birth
\* date is the mapping's when the mapping has one
ExactPersons(ps, data) ==
    { i \in 1..Len(ps) :
        /\ "first_name" \in DOMAIN data /\ "last_name" \in DOMAIN data
        /\ Lower(ps[i].first_name) = Lower(data["first_name"])
        /\ Lower(ps[i].last_name) = Lower(data["last_name"])
        /\ \/ "dob" \notin DOMAIN data
           \/ data["dob"] = <<>>
           \/ ps[i].dob # NoDate /\ DateColumnText(ps[i].dob) = data["dob"] }

\* the similarity of each stored row of the kind a call resolves to the
\* call's mapping
Scores(op, data) ==
    IF op = "match_person"
    THEN [i \in 1..Len(persons) |->
            compute_similarity(PersonSearchParts(data), PersonText(persons[i]))]
    ELSE [i \in 1..Len(locations) |->
            compute_similarity(LocationSearchParts(data),
                               LocationText(locations[i]))]

EntityId(op, i) == IF op = "match_person" THEN PersonId(i) ELSE LocationId(i)

\* the rows that score 0.75 or more
AtOrAbove(op, data) ==
    { i \in DOMAIN Scores(op, data) : Scores(op, data)[i] >= 75 }

\* the call queued exactly one review row, pending, of the given kind
QueuedOne(entity_type, query_type) ==
    /\ next_review' = next_review + 1
    /\ DOMAIN reviews' = DOMAIN reviews \cup {next_review'}
    /\ \A rid \in DOMAIN reviews : reviews'[rid] = reviews[rid]
    /\ reviews'[next_review'].entity_type = entity_type
    /\ reviews'[next_review'].query_type = query_type
    /\ reviews'[next_review'].status = "pending"

C7_CreatedOnceThenFound ==
    [][/\ (last'.op = "match_person"
             /\ Truthy(last'.data, "first_name")
             /\ Truthy(last'.data, "last_name")
             /\ "semantic" \in last'.tiers /\ last'.hits = 0)
          => /\ Len(persons') = Len(persons) + 1
             /\ last'.ret = PersonId(Len(persons'))
       /\ (last.op = "match_person" /\ last.new_id # NoId
             /\ last'.op = "match_person" /\ last'.data = last.data)
          => /\ persons' = persons
             /\ last'.ret = last.new_id]_vars

\* C8: a Location mapping with no deterministic match and no semantic
\* candidate creates no Location, queues exactly one pending review item of
\* kind location and query no_results, and returns null; no resolver call
\* ever changes the Location table.
C8_LocationsAreNeverCreated ==
    [][/\ (last'.op = "match_location"
             /\ "semantic" \in last'.tiers /\ last'.hits = 0)
          => /\ last'.ret = NoId
             /\ QueuedOne("location", "no_results")
             /\ reviews'[next_review'].candidate_matches = <<>>
       /\ last'.op \in ResolverOps => locations' = locations]_vars

\* Zenith of Duluth, which no stored row resembles, has just been queued
C8_Witness ==
    /\ last.op = "match_location" /\ last.ret = NoId
    /\ last.tiers = {"deterministic", "semantic"} /\ last.hits = 0
    /\ "name" \in DOMAIN last.data /\ last.data["name"] = "Zenith"
    /\ next_review \in DOMAIN reviews
    /\ reviews[next_review].entity_type = "location"
    /\ reviews[next_review].query_type = "no_results"
    /\ locations = SeedLocations

\* C9: when the semantic tier finds two or more rows at 0.75 or above, the
\* call returns null, creates no row, and queues exactly one
\* multiple_results item whose candidates are the five highest scoring rows
\* at most, each with its id and similarity, in descending order.
C9_AmbiguousIsQueuedWithTopFive ==
    [][(last'.op \in ResolverOps /\ last'.backend = "ok"
          /\ Cardinality(AtOrAbove(last'.op, last'.data)) >= 2)
       => /\ last'.ret = NoId
          /\ persons' = persons /\ locations' = locations
          /\ QueuedOne(IF last'.op = "match_person" THEN "person"
                       ELSE "location", "multiple_results")
          /\ LET cands == reviews'[next_review'].candidate_matches
                 score == Scores(last'.op, last'.data)
                 above == AtOrAbove(last'.op, last'.data)
                 listed == { i \in above :
                               \E k \in 1..Len(cands) :
                                  cands[k].id = EntityId(last'.op, i) }
             IN  /\ Len(cands) <= 5
                 /\ Len(cands) = IF Cardinality(above) < 5
                                 THEN Cardinality(above) ELSE 5
                 /\ Cardinality(listed) = Len(cands)
                 /\ \A k \in 1..Len(cands) :
                       \E i \in above :
                          /\ cands[k].id = EntityId(last'.op, i)
                          /\ cands[k].similarity = score[i]
                 /\ \A k \in 1..Len(cands), l \in 1..Len(cands) :
                       k < l => cands[k].similarity >= cands[l].similarity
                 /\ \A i \in above \ listed, k \in 1..Len(cands) :
                       score[i] <= cands[k].similarity]_vars

\* "Smith" alone has just been queued with five candidates out of the six
\* rows that scored 0.75 or more, Bob and John (0.81) in front
C9_Witness ==
    /\ last.op = "match_person" /\ last.ret = NoId /\ last.hits = 6
    /\ next_review \in DOMAIN reviews
    /\ reviews[next_review].query_type = "multiple_results"
    /\ Len(reviews[next_review].candidate_matches) = 5
    /\ reviews[next_review].candidate_matches[1].id = PersonId(2)
    /\ reviews[next_review].candidate_matches[2].id = PersonId(7)

\* C10: for both kinds, when there is no deterministic match and exactly
\* one row scores 0.75 or more, the call returns that row's id, creates no
\* row and queues nothing.
C10_SingleCandidateIsTaken ==
    [][(last'.op \in ResolverOps /\ last'.backend = "ok"
          /\ Cardinality(AtOrAbove(last'.op, last'.data)) = 1)
       => /\ \E i \in AtOrAbove(last'.op, last'.data) :
                last'.ret = EntityId(last'.op, i)
          /\ persons' = persons /\ locations' = locations
          /\ reviews' = reviews /\ next_review' = next_review]_vars

\* Jon Smith, who scores exactly 0.75 against John Smith and less against
\* everyone else, has just been resolved to John Smith
C10_Witness ==
    /\ last.op = "match_person" /\ last.backend = "ok" /\ last.hits = 1
    /\ "first_name" \in DOMAIN last.data /\ last.data["first_name"] = "Jon"
    /\ last.ret = PersonId(7) /\ Len(persons) >= 7
    /\ compute_similarity(PersonSearchParts(last.data), PersonText(persons[7])) = 75

\* the organization name of a normalized mapping: _normalize_data files a
\* top-level organization_name under name, a nested one under its own key
OrganizationName(data) ==
    IF "organization_name" \in DOMAIN data THEN <<data["organization_name"]>>
    ELSE IF "name" \in DOMAIN data THEN <<data["name"]>>
    ELSE <<>>

\* the stored locations with exactly the mapping's name, city and state
SameNameCityState(ls, data) ==
    { i \in 1..Len(ls) :
        /\ OrganizationName(data) # <<>>
        /\ "city" \in DOMAIN data /\ "state" \in DOMAIN data
        /\ <<ls[i].name>> = OrganizationName(data)
        /\ ls[i].city = data["city"]
        /\ ls[i].state = data["state"] }

\* the stored locations with exactly the mapping's address and zip
SameAddressZip(ls, data) ==
    { i \in 1..Len(ls) :
        /\ "address" \in DOMAIN data /\ "zip" \in DOMAIN data
        /\ ls[i].address = data["address"]
        /\ ls[i].zip = data["zip"] }

\* C11: a Location mapping with an organization name, a city and a state,
\* and no address and zip hit, that exactly one stored Location has the
\* name, city and state of, is resolved to that Location by the
\* deterministic tier alone, and nothing is queued.
C11_NameCityStateIsExact ==
    [][(last'.op = "match_location"
          /\ Cardinality(SameAddressZip(locations, last'.data)) # 1
          /\ Cardinality(SameNameCityState(locations, last'.data)) = 1)
       => /\ \E i \in SameNameCityState(locations, last'.data) :
                last'.ret = LocationId(i)
          /\ last'.tiers = {"deterministic"}
          /\ reviews' = reviews]_vars

\* C12: every resolver call either returns an entity id and queues nothing,
\* or returns null and queues exactly one pending review item that carries
\* the call's parse id, the entity kind, the normalized mapping and the
\* candidate list.
C12_IdOrOneReviewItem ==
    [][last'.op \in ResolverOps
       => \/ /\ last'.ret # NoId
             /\ reviews' = reviews /\ next_review' = next_review
          \/ /\ last'.ret = NoId
             /\ next_review' = next_review + 1
             /\ DOMAIN reviews' = DOMAIN reviews \cup {next_review'}
             /\ \A rid \in DOMAIN reviews : reviews'[rid] = reviews[rid]
             /\ LET item == reviews'[next_review']
                IN  /\ item.status = "pending"
                    /\ item.document_parse_id = last'.parse_id
                    /\ item.entity_type = IF last'.op = "match_person"
                                          THEN "person" ELSE "location"
                    /\ item.raw_data = last'.data
                    /\ item.query_type \in {"no_results", "multiple_results"}
                    /\ (item.query_type = "no_results")
                         = (item.candidate_matches = <<>>)
                    /\ Len(item.candidate_matches)
                         = IF last'.hits < 5 THEN last'.hits ELSE 5]_vars

\* a call for parse 2 has just returned null and left the second review
\* item of the run, a person item with candidates, behind a first one
C12_Witness ==
    /\ last.op = "match_person" /\ last.ret = NoId /\ last.parse_id = 2
    /\ next_review = 2 /\ DOMAIN reviews = {1, 2}
    /\ reviews[2].document_parse_id = 2
    /\ reviews[2].status = "pending"
    /\ reviews[2].candidate_matches # <<>>

\* C13: for each parse and each slot (sender/location, recipient/person)
\* at most one review item is pending, however often the resolver is called
\* with the same parse id and kind.
C13_OnePendingPerSlot ==
    \A r1 \in DOMAIN reviews, r2 \in DOMAIN reviews :
        (/\ reviews[r1].status = "pending" /\ reviews[r2].status = "pending"
         /\ reviews[r1].document_parse_id = reviews[r2].document_parse_id
         /\ reviews[r1].entity_type = reviews[r2].entity_type)
        => r1 = r2

\* the review items that cover a slot of an upload
SlotItems(document_parse_id, entity_type) ==
    { rid \in DOMAIN reviews :
        /\ reviews[rid].document_parse_id = document_parse_id
        /\ reviews[rid].entity_type = entity_type }

\* the slot ended in exactly one of its terminal states: matched to an
\* entity, or handed to the review queue (where it is pending, resolved or
\* skipped)
SlotClosed(entity_id, document_parse_id, entity_type) ==
    (entity_id # NoId) # (SlotItems(document_parse_id, entity_type) # {})

\* C14: after an upload's resolution pass, its sender slot and its recipient
\* slot are each either matched to an entity id or covered by a review
\* item, never neither, whatever was extracted for the slot.
C14_EverySlotIsClosed ==
    \A n \in 1..Len(documents) :
        /\ SlotClosed(documents[n].location_id, n, "location")
        /\ SlotClosed(documents[n].person_id, n, "person")

\* more than one stored row satisfies the deterministic predicate of the
\* call's kind
AmbiguousExact(op, data) ==
    IF op = "match_person"
    THEN Cardinality(ExactPersons(persons, data)) >= 2
    ELSE \/ Cardinality(SameAddressZip(locations, data)) >= 2
         \/ Cardinality(SameNameCityState(locations, data)) >= 2

\* C15: whenever more than one stored row qualifies for a mapping (two or
\* more rows satisfy the deterministic predicate, or two or more score 0.75
\* or above), the call queues a review item and returns null; it returns
\* none of the rows and creates no row.  (The claim also confines the
\* semantic tier to mappings with no exact row; the formula leaves that out,
\* so that it fails only on a wrong answer.)
C15_AmbiguityGoesToReview ==
    [][(last'.op \in ResolverOps
          /\ \/ AmbiguousExact(last'.op, last'.data)
             \/ /\ last'.backend = "ok"
                /\ Cardinality(AtOrAbove(last'.op, last'.data)) >= 2)
       => /\ last'.ret = NoId
          /\ persons' = persons /\ locations' = locations
          /\ next_review' = next_review + 1
          /\ DOMAIN reviews' = DOMAIN reviews \cup {next_review'}
          /\ reviews'[next_review'].status = "pending"]_vars

\* both names are in the mapping and neither is empty
HasBothNames(data) ==
    /\ "first_name" \in DOMAIN data /\ data["first_name"] # ""
    /\ "last_name" \in DOMAIN data /\ data["last_name"] # ""

\* C16: a Person mapping without a given name or without a family name
\* (missing or empty), with no deterministic match and no semantic
\* candidate, creates no Person: one pending no_results item with no
\* candidates is queued and null is returned.
C16_NamelessIsNeverCreated ==
    [][(last'.op = "match_person" /\ ~HasBothNames(last'.data)
          /\ "semantic" \in last'.tiers /\ last'.hits = 0)
       => /\ persons' = persons
          /\ last'.ret = NoId
          /\ QueuedOne("person", "no_results")
          /\ reviews'[next_review'].candidate_matches = <<>>]_vars

\* a mapping with an empty given name and the family name Smith has just
\* been queued, the embedding backend being out of use
C16_Witness ==
    /\ last.op = "match_person" /\ last.ret = NoId /\ last.hits = 0
    /\ "first_name" \in DOMAIN last.data /\ last.data["first_name"] = ""
    /\ "last_name" \in DOMAIN last.data /\ last.data["last_name"] = "Smith"
    /\ last.backend \in {"missing", "raises"}
    /\ next_review \in DOMAIN reviews
    /\ reviews[next_review].query_type = "no_results"
    /\ reviews[next_review].raw_data = last.data
    /\ persons = SeedPersons

\* C17: when the embedding backend is missing or raises, the call does not
\* fail and does what it does on zero candidates: a Person mapping with
\* both names is created, a Person mapping without is queued as no_results,
\* a Location mapping is queued as no_results.
C17_BackendFailureIsNoCandidates ==
    [][(last'.op \in ResolverOps /\ last'.backend \in {"missing", "raises"})
       => /\ last'.ok
          /\ last'.hits = 0
          /\ locations' = locations
          /\ IF last'.op = "match_person" /\ HasBothNames(last'.data)
             THEN /\ Len(persons') = Len(persons) + 1
                  /\ SubSeq(persons', 1, Len(persons)) = persons
                  /\ last'.ret = PersonId(Len(persons'))
                  /\ reviews' = reviews
             ELSE /\ persons' = persons
                  /\ last'.ret = NoId
                  /\ QueuedOne(IF last'.op = "match_person" THEN "person"
                               ELSE "location", "no_results")
                  /\ reviews'[next_review'].candidate_matches = <<>>]_vars

\* "Smith" alone has just been queued as no_results while the backend
\* raised, although stored rows score 0.75 and more against it
C17_Witness ==
    /\ last.op = "match_person" /\ last.backend = "raises"
    /\ last.ret = NoId /\ last.hits = 0
    /\ Cardinality(AtOrAbove("match_person", last.data)) >= 2
    /\ next_review \in DOMAIN reviews
    /\ reviews[next_review].query_type = "no_results"
    /\ reviews[next_review].entity_type = "person"

----------------------------------------------------------------------------
(* The document parser: parse_document_blocks and extract_structured_data *)

Heuristically == ~(parser.llm.enabled /\ parser.llm.available)

Segmented == parser.stage \in {"blocks", "raised", "parsed"}

AssistFails ==
    /\ parser.llm.enabled
    /\ parser.llm.available
    /\ parser.llm.reply.kind \in FailureKinds

\* C18: when the assist is enabled and available and its call fails (error,
\* timeout, unusable output), parse_document_blocks gives exactly what the
\* heuristic path gives for the text, extract_structured_data gives exactly
\* what the regex layer gives for the block, and the assist makes neither
\* raise.
C18_AssistFailureFallsBack ==
    AssistFails =>
        /\ Segmented =>
              parser.blocks = parse_document_blocks_heuristic(parser.text)
        /\ parser.stage = "extracted" =>
              parser.parsed = regex_layer(parser.text)

\* the support the guard is to ask of a suggested value: address, phone and
\* email occur in the block, a zip occurs once spaces and hyphens are
\* removed, a name, city, state or organization has a word of more than two
\* characters that occurs, any other field occurs in the block
Supported(key, value, source) ==
    IF key \in {"address", "phone", "email"}
    THEN contains(lower(source), lower(value))
    ELSE IF key = "zip"
    THEN contains(remove_char(remove_char(lower(source), " "), "-"),
                  remove_char(remove_char(lower(value), " "), "-"))
    ELSE IF key \in {"first_name", "last_name", "name", "city", "state",
                     "organization_name"}
    THEN \E i \in 1..Len(split(lower(value))) :
             /\ Len(split(lower(value))[i]) > 2
             /\ contains(lower(source), split(lower(value))[i])
    ELSE contains(lower(source), lower(value))

\* the fields of the reply that are in the result with the value the assist
\* gave them
Survivors ==
    {key \in DOMAIN parser.parsed.fields \cap DOMAIN parser.llm.reply.fields :
        parser.parsed.fields[key] = parser.llm.reply.fields[key]}

\* C19: in the mapping of an assisted extraction (the guard switched on, as
\* by default), every value the assist suggested that is still there is
\* supported by the block; a suggested zip 99999 the block does not hold is
\* not there.
C19_OnlySupportedValuesSurvive ==
    (/\ parser.stage = "extracted"
     /\ parser.parsed.layer = "llm"
     /\ parser.llm.validate) =>
        \A key \in Survivors :
            Supported(key, parser.parsed.fields[key], parser.text)

\* five letterhead lines, then "Dear John Smith / 123 Oak St / City, ST
\* 00000", an empty line and "Dear John,"
ScenarioLetter == join(Letterhead \o DearAddressBlock \o DearTail)

C20_Scenario ==
    (/\ parser.stage \in {"blocks", "parsed"}
     /\ Heuristically
     /\ parser.text = ScenarioLetter) =>
        /\ parser.blocks.sender_text = join(Letterhead)
        /\ parser.blocks.recipient_text =
               join(SubSeq(DearAddressBlock, 1, 3))
        /\ startswith(parser.blocks.body_text, <<"D", "e", "a", "r", " ", "J", "o", "h", "n", ",">>)

\* the lines without a gap that end at lines[j]
RECURSIVE RunBefore(_, _)
RunBefore(lines, j) ==
    IF j < 0 \/ ~is_content(strip(line(lines, j)))
    THEN <<>>
    ELSE RunBefore(lines, j - 1) \o <<strip(line(lines, j))>>

\* a letter: no salutation "Hi ...,", and a line that starts with "Dear "
\* right after a run of at least two lines
Letter(lines) ==
    /\ quote_salutation(lines) = NoIndex
    /\ dear_line_idx(lines) # NoIndex
    /\ Len(RunBefore(lines, dear_line_idx(lines) - 1)) >= 2

C20_General ==
    (/\ parser.stage \in {"blocks", "parsed"}
     /\ Heuristically
     /\ Letter(split_lines(strip(parser.text)))) =>
        LET lines == split_lines(strip(parser.text))
            dear == dear_line_idx(lines)
            run == RunBefore(lines, dear - 1)
        IN  /\ parser.blocks.recipient_text = join(run)
            /\ parser.blocks.sender_text =
                   block_text(content_lines(lines, dear - Len(run)))
            /\ startswith(parser.blocks.body_text, strip(line(lines, dear)))

\* C20: on the heuristic path the letter of the scenario is cut into the five
\* letterhead lines as sender block, the address block "Dear John Smith /
\* 123 Oak St / City, ST 00000" as recipient block and a body that starts at
\* "Dear John,"; in general the recipient block is the run of lines right
\* before the "Dear " line and the sender block is all that comes before
\* that run.
C20_LetterIsCutAtDear == C20_Scenario /\ C20_General

\* the lines parse_document_blocks works on
TextLines == split_lines(strip(parser.text))

\* the line of the closing phrase nearest before lines[j], after lines[i]
NearestClosing(lines, i, j) ==
    last_index(i + 1, j - 1, LAMBDA k : closing_phrase(strip(line(lines, k))))

\* the last of the signature lines that start at lines[j]
RECURSIVE SignatureEnd(_, _)
SignatureEnd(lines, j) ==
    IF j + 1 < Len(lines) /\ signature_marker(strip(line(lines, j + 1)))
    THEN SignatureEnd(lines, j + 1)
    ELSE j

\* the non-empty lines lines[a] .. lines[b], stripped
LinesBetween(lines, a, b) ==
    SelectSeq([k \in 1..(b - a + 1) |-> strip(line(lines, a + k - 1))],
              LAMBDA l : l # <<>>)

\* a salutation among the first lines, within 50 lines of it a line with an
\* e-mail address or a phone number, and a closing phrase between the two
QuoteCase(lines) ==
    /\ quote_salutation(lines) # NoIndex
    /\ quote_signature(lines, quote_salutation(lines)) # NoIndex
    /\ NearestClosing(lines, quote_salutation(lines),
                      quote_signature(lines, quote_salutation(lines)))
           # NoIndex

C21_General ==
    (Segmented /\ Heuristically /\ QuoteCase(TextLines)) =>
        LET i == quote_salutation(TextLines)
            j == quote_signature(TextLines, i)
        IN  /\ parser.blocks.raised = ""
            /\ parser.blocks.recipient_text =
                   salutation_name(strip(line(TextLines, i)))
            /\ parser.blocks.sender_text =
                   join(LinesBetween(TextLines, NearestClosing(TextLines, i, j),
                                     SignatureEnd(TextLines, j)))

\* "Hi Heather, ... Thank you, James Ostlie, (763) 200-4653,
\* James.Ostlie@davey.com"
ScenarioQuote == join(SalutationLines \o SignatureTail)

C21_Scenario ==
    (Segmented /\ Heuristically /\ parser.text = ScenarioQuote) =>
        /\ parser.blocks.raised = ""
        /\ contains(parser.blocks.recipient_text, <<"H", "e", "a", "t", "h", "e", "r">>)
        /\ contains(parser.blocks.sender_text, <<"J", "a", "m", "e", "s", " ", "O", "s", "t", "l", "i", "e">>)
        /\ contains(parser.blocks.sender_text, <<"(", "7", "6", "3", ")", " ", "2", "0", "0", "-", "4", "6", "5", "3">>)
        /\ contains(parser.blocks.sender_text, <<"J", "a", "m", "e", "s", ".", "O", "s", "t", "l", "i", "e", "@", "d", "a", "v", "e", "y", ".", "c", "o", "m">>)

\* C21: on the heuristic path, a text with a salutation "Hi/Hello/Hey
\* <name>," followed within 50 lines by a line that holds an e-mail address
\* or a phone number is cut into the salutation name as recipient block and,
\* as sender block, the lines from the nearest closing phrase before that
\* line through the signature lines; for "Hi Heather, ... Thank you, James
\* Ostlie, (763) 200-4653, James.Ostlie@davey.com" the recipient holds
\* Heather and the sender holds James Ostlie, the phone and the e-mail line.
C21_QuoteIsCutAtSignature == C21_Scenario /\ C21_General

\* a receipt: no salutation, no "Dear " line, and a header "payer
\* information" or "recipient information" among the first 30 lines
ReceiptCase(lines) ==
    /\ quote_salutation(lines) = NoIndex
    /\ ~\E i \in 0..(Len(lines) - 1) : dear_line(line(lines, i))
    /\ \E i \in 0..(Min(30, Len(lines)) - 1) : payer_header(line(lines, i))

\* the header of a receipt
ReceiptHeader(lines) ==
    first_index(0, Min(30, Len(lines)) - 1,
                LAMBDA i : payer_header(line(lines, i)))

\* C25: on the heuristic path, when a header with "payer information" or
\* "recipient information" is among the first 30 lines of a text without
\* salutation and without "Dear " line, the non-empty lines after the header,
\* up to the next section keyword, are the recipient block and the sender
\* block is null, wherever among those lines the header stands, the first
\* five non-empty lines included.
C25_ReceiptHeaderGivesRecipient ==
    (/\ parser.stage \in {"blocks", "parsed"}
     /\ Heuristically
     /\ ReceiptCase(TextLines)) =>
        /\ parser.blocks.recipient_text =
               block_text(following_block(TextLines,
                                          ReceiptHeader(TextLines) + 1,
                                          Len(TextLines) - 1, TRUE))
        /\ parser.blocks.sender_text = NoText

\* C29: the heuristic path is total: for every text, a salutation whose
\* e-mail or phone line is the last line included, parse_document_blocks
\* gives its four outputs and raises nothing.
C29_HeuristicPathIsTotal ==
    (Segmented /\ Heuristically) => parser.blocks.raised = ""

\* the fields of the reply whose value, a name, city, state or organization,
\* stands in the block as it is, but for the case of its letters
Verbatim ==
    {key \in DOMAIN parser.llm.reply.fields
             \cap {"first_name", "last_name", "name", "city", "state",
                   "organization_name"} :
        /\ parser.llm.reply.fields[key] # JsonNull
        /\ parser.llm.reply.fields[key] # <<>>
        /\ contains(lower(parser.text), lower(parser.llm.reply.fields[key]))}

\* C30: the guard removes unsupported values only: a name, city, state or
\* organization the assist suggests and that stands in the block as it is
\* (case apart), a two-letter state code for one, is kept in the validated
\* mapping.
C30_VerbatimValuesAreKept ==
    (/\ parser.stage = "extracted"
     /\ parser.llm.enabled
     /\ parser.llm.available
     /\ parser.llm.validate
     /\ parser.llm.reply.kind = "json") =>
        \A key \in Verbatim :
            /\ parser.parsed.layer = "llm"
            /\ key \in DOMAIN parser.parsed.fields
            /\ parser.parsed.fields[key] = parser.llm.reply.fields[key]

\* C26: normalization gives a flat mapping in the canonical vocabulary: no
\* key street_address or organization_name is left, whether the synonym was
\* at top level or inside a nested structure (they are address and name),
\* and normalizing a normalized mapping gives it back unchanged.
C26_NormalizationIsCanonical ==
    last.op = "_normalize_data" =>
        /\ "street_address" \notin DOMAIN last.data
        /\ "organization_name" \notin DOMAIN last.data
        /\ last.again = last.data

\* a stored date of birth and the date a mapping carries are two dates
DobConflict(stored, dob) ==
    /\ stored # NoDate
    /\ parse_date(dob) # NoDate
    /\ parse_date(dob) # stored

\* C27: match_person for a mapping that carries a date of birth never
\* returns the id of a Person that was stored with another date of birth: a
\* row the deterministic tier rejects for its date is not accepted by the
\* semantic tier, which compares names only.
C27_NoMatchAcrossBirthDates ==
    [][(last'.op = "match_person" /\ Truthy(last'.data, "dob")) =>
           \A i \in 1..Len(persons) :
               last'.ret = PersonId(i) =>
                   ~DobConflict(persons[i].dob, last'.data["dob"])]_vars

\* a successful resolve_review has just written review item rid, which was
\* pending
ResolvedPending(rid) ==
    /\ last'.op = "resolve_review" /\ last'.ok /\ last'.rid = rid
    /\ rid \in DOMAIN reviews
    /\ reviews[rid].status = "pending"

\* the first commit of a create resolution of the pending item rid
CreatedFor(rid) ==
    /\ last'.op = "resolve_review_create" /\ last'.rid = rid
    /\ rid \in DOMAIN reviews
    /\ reviews[rid].status = "pending"

\* the second commit of a create resolution of item rid
Finishing(rid) == session # Idle /\ session' = Idle /\ session.rid = rid

C22_ReviewerAndTimeRecorded ==
    [][\A rid \in DOMAIN reviews :
          ResolvedPending(rid) =>
              /\ reviews'[rid].status = "resolved"
              /\ reviews'[rid].reviewed_by \in Reviewers
              /\ Finishing(rid) => reviews'[rid].reviewed_by = session.reviewed_by
              /\ now' = now + 1
              /\ reviews'[rid].reviewed_at = now'
              /\ reviews'[rid].resolved_entity_id = last'.ret]_vars

C22_OneEntityOfTheKind ==
    [][\A rid \in DOMAIN reviews :
          /\ CreatedFor(rid) =>
                /\ session'.rid = rid
                /\ session'.entity_id = last'.ret
                /\ IF reviews[rid].entity_type = "person"
                   THEN /\ persons' = Append(persons, NewPersonData)
                        /\ locations' = locations
                        /\ last'.ret = PersonId(Len(persons'))
                   ELSE /\ locations' = Append(locations, NewLocationData)
                        /\ persons' = persons
                        /\ last'.ret = LocationId(Len(locations'))
          /\ (ResolvedPending(rid) /\ Finishing(rid)) =>
                /\ persons' = persons /\ locations' = locations
                /\ last'.ret = session.entity_id]_vars

\* C22: a successful resolve_review on a pending item records the reviewer
\* and a timestamp on the item; a create resolution creates exactly one new
\* entity, of the item's declared kind, and the id of that entity is stored
\* as the item's resolved entity id and returned to the caller.
C22_ResolveRecordsDecision ==
    C22_ReviewerAndTimeRecorded /\ C22_OneEntityOfTheKind

\* a create resolution of the person item has just finished: one Person
\* more, Bob or Alice and the time on the item, the new id on the item and
\* in the reply
C22_Witness ==
    /\ last.op = "resolve_review" /\ last.ok
    /\ last.rid \in DOMAIN reviews
    /\ reviews[last.rid].entity_type = "person"
    /\ reviews[last.rid].status = "resolved"
    /\ reviews[last.rid].reviewed_by \in Reviewers
    /\ reviews[last.rid].reviewed_at = now
    /\ Len(persons) = Len(SeedPersons) + 1
    /\ last.ret = PersonId(Len(persons))
    /\ reviews[last.rid].resolved_entity_id = last.ret

\* the reference, on the document an item came from, of the slot the item
\* stands for
SlotOf(docs, item) ==
    IF item.entity_type = "person"
    THEN docs[item.document_parse_id].person_id
    ELSE docs[item.document_parse_id].location_id

\* C23: resolve_review changes the review item, and the entity it creates,
\* and nothing else: the documents, with their entity references and their
\* parses, are as before, so the slot of a queued item is still null on its
\* document after the item is resolved.
C23_ResolveLeavesDocuments ==
    [][last'.op \in ResolveOps =>
          /\ documents' = documents
          /\ (last'.ok /\ last'.op = "resolve_review"
                /\ last'.rid \in DOMAIN reviews') =>
                 /\ reviews'[last'.rid].document_parse_id \in DOMAIN documents'
                 /\ SlotOf(documents', reviews'[last'.rid]) = NoId]_vars

\* an upload has queued its recipient, a reviewer has picked or created a
\* person for the item, and the document still has no person
C23_Witness ==
    /\ last.op = "resolve_review" /\ last.ok
    /\ last.rid \in DOMAIN reviews
    /\ reviews[last.rid].entity_type = "person"
    /\ reviews[last.rid].status = "resolved"
    /\ reviews[last.rid].resolved_entity_id # NoId
    /\ reviews[last.rid].document_parse_id \in DOMAIN documents
    /\ documents[reviews[last.rid].document_parse_id].person_id = NoId

\* C28: each review item that is resolved with an entity id names an entity
\* that exists and is of the item's declared kind, a Person for a person
\* item and a Location for a location item, whether the id was picked or
\* created.
C28_ResolvedIdNamesEntityOfKind ==
    \A rid \in DOMAIN reviews :
        (reviews[rid].status = "resolved"
           /\ reviews[rid].resolved_entity_id # NoId) =>
            IF reviews[rid].entity_type = "person"
            THEN \E i \in 1..Len(persons) :
                     reviews[rid].resolved_entity_id = PersonId(i)
            ELSE \E i \in 1..Len(locations) :
                     reviews[rid].resolved_entity_id = LocationId(i)

\* caller c is at the last step of a match_person whose two lookups found
\* nobody for a mapping with both names
CreatesFor(c) ==
    /\ calls[c].pc = "semantic"
    /\ calls'[c].pc = "idle"
    /\ calls[c].semantic_matches = <<>>
    /\ Truthy(calls[c].data, "first_name")
    /\ Truthy(calls[c].data, "last_name")

\* C24: match_person holds no lock from its lookups to its insert: a call
\* whose lookups found nobody, for a mapping with both names, inserts its
\* Person whatever has been committed since, so two concurrent calls for
\* the same unmatched mapping can both insert, and two rows then satisfy
\* the same deterministic predicate.
C24_CreateIgnoresLaterCommits ==
    [][\A c \in Callers :
          CreatesFor(c) =>
              /\ persons' = Append(persons, NewPerson(calls[c].data))
              /\ last'.ret = PersonId(Len(persons'))]_vars

\* two calls for John Smith, who was not stored, have both finished, each
\* with a new Person: the deterministic query for John Smith now has two
\* rows
C24_Witness ==
    /\ \A c \in Callers : calls[c].pc = "idle"
    /\ Len(persons) = Len(SeedPersons) + 2
    /\ PersonQuery(persons, normalize_data(JohnSmith))
           = {Len(SeedPersons) + 1, Len(SeedPersons) + 2}
    /\ match_person_deterministic(persons, normalize_data(JohnSmith)) = 0
    /\ last.op = "match_person" /\ last.ret = PersonId(Len(persons))

====
